---------------------------- MODULE Spec2Model ----------------------------
(***************************************************************************)
(* A model of the e-Reg controller: the instrument driver (eReg, and the   *)
(* older Model client), the polling worker, the sweep worker and the       *)
(* controller slots that tie them together.                                *)
(*                                                                         *)
(* Several specifications share one set of variables:                      *)
(*   SpecTransport  eReg._send_query statement by statement, one process   *)
(*                  per calling thread, with eReg.open_connection          *)
(*   SpecModel      the same for Model._send_query of model/model.py       *)
(*   SpecDriver     the pressure setter of eReg, a call being one step     *)
(*   SpecSetters    the heartbeat setter and the integer-bounded writes    *)
(*                  of eReg, a call being one step                         *)
(*   SpecPolling    the polling timer, the reconnect window and the main   *)
(*                  tab, a slot being one step                             *)
(*   Spec           one connection from construction until it is lost:     *)
(*                  the polling timer, the main tab, the sweep tab and the *)
(*                  sweep worker in its thread                             *)
(*   SpecEntry      the pressure entry, with texts beyond its range, and   *)
(*                  the sweep started from it                              *)
(*   SpecRestart    a sweep, the loss of the connection, the reconnection  *)
(*   SpecTimers     the purge and bleed supply timers beside polling and   *)
(*                  a sweep, and the closing of the window                 *)
(*   SpecStop       a sweep and the ways it is stopped                     *)
(*   SpecUnexpected polling, observed, beside a sweep and the timers       *)
(*   SpecBleed      the bleed supply timer and its blip task beside the    *)
(*                  main tab                                               *)
(*   SpecMedian     the polling worker on the reply to the buffer read     *)
(*   SpecSweepBleed a sweep with the bleed supply timer running beside it   *)
(*   SpecPurge      the purge button and its timer beside polling, OPERATE *)
(*                  and the reconnect window                               *)
(*   SpecTransportLive  SpecTransport with the fairness of its steps        *)
(*   SpecSweepLive  a sweep beside polling, with the fairness of the timers *)
(* Each specification leaves the variables of the others unchanged.        *)
(***************************************************************************)
EXTENDS Integers, Sequences, FiniteSets, TLC

VARIABLES
    sock,       \* eReg.sock: "None", "fresh" (socket object created, not yet connected), "conn"
    lock,       \* eReg._lock: "free" or the thread that holds it
    pc,         \* per thread: the statement of _send_query / open_connection it is at
    rxbuf,      \* responses waiting in the socket's receive buffer, each tagged with the thread whose command it answers
    got,        \* per thread: the thread whose command the last received response answers ("None": nothing received)
    outcome,    \* per thread: how its last call ended
    sends,      \* per thread: successful sendall calls of the current (or last) call
    late,       \* per thread: the current (or last) call began after a socket fault, and no connect has succeeded since
    faulted,    \* a socket fault happened and no connect has succeeded since
    dev_cal,    \* the device: the CalibrationPressure its read-defaults response ends with (psi x 100)
    cal_pressure, \* eReg.cal_pressure, <<v>> once Controller._init_ereg has cached v, <<>> before
    call,       \* the last call of a driver operation: its name, argument, the commands it sent and how it ended
    working,        \* PollingWorker.working, the guard flag of the sampling cycle
    polling_timer,  \* Controller.polling_timer is active
    poll,           \* the last call of PollingWorker.doWork: the flag it found, the commands it sent, the reply to the buffer read, the signal it emitted, whether a sweep timer was active
    cyc,            \* the sampling cycle that last set the flag: start commands sent, times the flag was cleared, signals emitted, not-ready ticks seen
    mw,             \* MainWindow: the widgets the controller reads and writes
    sweep_worker,   \* the fields of the SweepWorker object made by the last sweep start
    worker_ref,     \* Controller.sweep_worker: "unset" (no such attribute yet), "object", "None"
    sweep_thread,   \* Controller.sweep_thread: "unset", "running", "finished" (its loop has quit), "deleted" (C++ object gone), "None"
    sweep_timer,    \* SweepWorker.timer is active
    sweep_pc,       \* the sweep thread: "off", "start" (doWork is due), "idle", "write" (take_step is at line 40)
    sigq,           \* signals of the sweep worker queued for the main thread
    sw,             \* the history of the last sweep, see NoSweep
    bleed_supply_timer, \* Controller.bleed_supply_timer is active
    purge_timer,    \* Controller.purge_timer is active
    purge_count,    \* Controller.purge_count modulo 2, the only use made of it (controller.py line 287)
    blip,           \* the blip task in flight: where it is ("none", "dip", "dwell") and the two pressures it was given
    stale,          \* threads that may have passed `if not self.sock` before another thread's fault cleared the handle
    app             \* "running", "closed" once the main window was closed, or "second sweep" once a sweep was started while a sweep thread was running

tvars == <<sock, lock, pc, rxbuf, got, outcome, sends, late, faulted>>

dvars == <<dev_cal, cal_pressure, call>>

svars == <<working, polling_timer, poll, cyc, mw, sweep_worker, worker_ref,
           sweep_thread, sweep_timer, sweep_pc, sigq, sw, bleed_supply_timer,
           purge_timer, purge_count, blip, stale, app>>

vars == <<tvars, dvars, svars>>

\* A line edit's text: <<>> when empty, <<n>> when it reads as the integer n.
Text(n) == <<n>>

\* MainWindow.create_gui, main_window.py lines 117-279: the widgets as built.
MainWindow_init ==
    [operate_checked |-> FALSE, operate_enabled |-> FALSE, operate_text |-> "DISCONNECTED",
     operate_rb |-> 101, rb_enabled |-> TRUE, purge_btn |-> FALSE, purge_down |-> FALSE,
     entry |-> Text(0), entry_enabled |-> TRUE, last_valid_pressure |-> <<>>,
     reading |-> "dashes",
     sweep_tab |-> FALSE, span_entry |-> Text(400), sweep_rb |-> 201, sweep_rb_enabled |-> TRUE,
     ext_sweep_btn |-> FALSE, start_sweep_btn |-> TRUE, stop_sweep_btn |-> FALSE,
     bar_maximum |-> 100, bar_value |-> 0]

\* No sweep has been started: SweepWorker fields are not there yet.
NoWorker ==
    [current_pressure |-> 0, target_count |-> 0, steps_taken |-> 0,
     direction_val |-> 1, _is_running |-> FALSE]

\* The history of the sweep in course: its starting pressure P and span N,
\* the finished events emitted, who asked it to stop, with the steps taken
\* at that time and whether a tick was in progress, what the last tick
\* raised, and the outcome of the last extension request.
NoSweep ==
    [P |-> 0, N |-> 0, finished |-> 0, cancel |-> "no", at |-> 0, midtick |-> FALSE,
     raised |-> "none", extend |-> "no", written |-> <<>>]

NoCall ==
    [entry |-> FALSE, wire |-> <<>>, step |-> "none", reply |-> "none", event |-> "none",
     during |-> FALSE]

NoBlip == [pc |-> "none", blip_pressure |-> 0, pressure_setting |-> 0]

NoCycle == [starts |-> 0, clears |-> 0, events |-> 0, waited |-> FALSE]

\* Controller.__init__ (lines 16-58) and PollingWorker.__init__ (lines 13-16)
\* before the `if self.ereg.sock` of line 60.
ControllerInit ==
    /\ working = FALSE
    /\ polling_timer = FALSE
    /\ poll = NoCall
    /\ cyc = NoCycle
    /\ mw = MainWindow_init
    /\ sweep_worker = NoWorker
    /\ worker_ref = "unset"
    /\ sweep_thread = "unset"
    /\ sweep_timer = FALSE
    /\ sweep_pc = "off"
    /\ sigq = <<>>
    /\ sw = NoSweep
    /\ bleed_supply_timer = FALSE
    /\ purge_timer = FALSE
    /\ purge_count = 0
    /\ blip = NoBlip
    /\ stale = {}
    /\ app = "running"

(***************************************************************************)
(* Threads that call into the driver.  The polling worker's doWork is      *)
(* called directly by the controller's timer slot, so polling and the UI   *)
(* slots share the main thread; the sweep worker's timer lives in its own  *)
(* QThread; a blip runs on a pool thread.                                  *)
(***************************************************************************)
Threads == {"main", "sweep", "blip"}

ERROR_RESPONSES == {"bcr", "bdr", "cfe", "ine"}

\* Responses the device may give to a command: a payload, or an error code.
Responses == {"payload"} \cup ERROR_RESPONSES

\* A table that knows one code only.
DecodeOneCode(response_str) ==
    IF response_str = "bcr" THEN "NegativeAcknowledgementError" ELSE "ok"

\* lines 56-64: how _send_query ends once a response has been received.
Decode(response_str) ==
    IF response_str \in ERROR_RESPONSES THEN "NegativeAcknowledgementError" ELSE "ok"

TransportInit ==
    /\ sock \in {"None", "conn"}       \* eReg.__init__ tries open_connection and swallows a failure
    /\ lock = "free"
    /\ pc = [t \in Threads |-> "idle"]
    /\ rxbuf = <<>>
    /\ got = [t \in Threads |-> "None"]
    /\ outcome = [t \in Threads |-> "none"]
    /\ sends = [t \in Threads |-> 0]
    /\ late = [t \in Threads |-> FALSE]
    /\ faulted = FALSE
    /\ dev_cal = 4400
    /\ cal_pressure = <<>>
    /\ call = [op |-> "none"]
    /\ ControllerInit

\* How one call ends: the thread is back at "idle" with its outcome recorded.
Return(t, how) ==
    /\ pc' = [pc EXCEPT ![t] = "idle"]
    /\ outcome' = [outcome EXCEPT ![t] = how]

\* The lock taken whether or not somebody holds it.
AcquireUnguarded(t) ==
    /\ lock' = t

\* `with self._lock:` entered: the lock is taken only when nobody holds it.
Acquire(t) ==
    /\ lock = "free"
    /\ lock' = t

\* The `with` block left with the lock still held.
KeepLock(t) ==
    lock' = lock

\* Leaving the `with` block, normally or by an exception.
Release(t) ==
    lock' = "free"

\* line 41-42: `if not self.sock: raise ConnectionError`, outside the lock.
SQ_check(t) ==
    /\ pc[t] = "idle"
    /\ sends' = [sends EXCEPT ![t] = 0]
    /\ late' = [late EXCEPT ![t] = faulted]
    /\ got' = [got EXCEPT ![t] = "None"]
    /\ IF sock = "None"
         THEN Return(t, "ConnectionError")
         ELSE /\ pc' = [pc EXCEPT ![t] = "wait"]
              /\ outcome' = [outcome EXCEPT ![t] = "none"]
    /\ UNCHANGED <<sock, lock, rxbuf, faulted>>

\* line 47: `with self._lock:`.
SQ_lock(t) ==
    /\ pc[t] = "wait"
    /\ Acquire(t)
    /\ pc' = [pc EXCEPT ![t] = "locked"]
    /\ UNCHANGED <<sock, rxbuf, got, outcome, sends, late, faulted>>

\* What the except clause of lines 52-54 does with the handle.
eReg_on_socket_error == "None"

\* line 49: `self.sock.sendall(query.encode())`.
\*   sock is None       AttributeError, which `except socket.error` does not catch
\*   sock not connected socket.error
\*   sock connected     the bytes go out and the device queues its response, or socket.error
SQ_sendall(t, on_error) ==
    /\ pc[t] = "locked"
    /\ \/ /\ sock = "None"
          /\ Release(t)
          /\ Return(t, "AttributeError")
          /\ UNCHANGED <<sock, rxbuf, got, sends, late, faulted>>
       \/ /\ sock = "conn"
          /\ rxbuf' = Append(rxbuf, t)
          /\ sends' = [sends EXCEPT ![t] = @ + 1]
          /\ pc' = [pc EXCEPT ![t] = "sent"]
          /\ UNCHANGED <<sock, lock, got, outcome, late, faulted>>
       \/ /\ sock \in {"fresh", "conn"}
          /\ sock' = on_error
          /\ faulted' = TRUE
          /\ rxbuf' = IF on_error = "None" THEN <<>> ELSE rxbuf
          /\ Release(t)
          /\ Return(t, "ConnectionError")
          /\ UNCHANGED <<got, sends, late>>

\* line 50: `response = self.sock.recv(1024)`, then lines 56-64 on the way out.
SQ_recv(t, on_error) ==
    /\ pc[t] = "sent"
    /\ \/ /\ sock = "None"
          /\ Release(t)
          /\ Return(t, "AttributeError")
          /\ UNCHANGED <<sock, rxbuf, got, sends, late, faulted>>
       \/ /\ sock = "conn"
          /\ rxbuf # <<>>
          /\ got' = [got EXCEPT ![t] = Head(rxbuf)]
          /\ rxbuf' = Tail(rxbuf)
          /\ Release(t)
          /\ \E r \in Responses : Return(t, Decode(r))
          /\ UNCHANGED <<sock, sends, late, faulted>>
       \/ /\ sock \in {"fresh", "conn"}
          /\ sock' = on_error
          /\ faulted' = TRUE
          /\ rxbuf' = IF on_error = "None" THEN <<>> ELSE rxbuf
          /\ Release(t)
          /\ Return(t, "ConnectionError")
          /\ UNCHANGED <<got, sends, late>>

eReg_send_query(t) ==
    \/ SQ_check(t)
    \/ SQ_lock(t)
    \/ SQ_sendall(t, eReg_on_socket_error)
    \/ SQ_recv(t, eReg_on_socket_error)

(***************************************************************************)
(* eReg.open_connection, lines 95-106.  It runs on the main thread, from   *)
(* Controller.receive_try_to_connect_sig; the reconnect window enables its *)
(* Connect button only when it was opened with no socket                   *)
(* (reconnect_window.py lines 58-62).  The handle is assigned before the   *)
(* socket is connected, and is read again for settimeout and connect.      *)
(***************************************************************************)
OC_create(t) ==
    /\ t = "main"
    /\ pc[t] = "idle"
    /\ sock = "None"
    /\ sock' = "fresh"
    /\ pc' = [pc EXCEPT ![t] = "opening"]
    /\ outcome' = [outcome EXCEPT ![t] = "none"]
    /\ sends' = [sends EXCEPT ![t] = 0]
    /\ late' = [late EXCEPT ![t] = FALSE]
    /\ got' = [got EXCEPT ![t] = "None"]
    /\ UNCHANGED <<lock, rxbuf, faulted>>

OC_connect(t) ==
    /\ pc[t] = "opening"
    /\ \/ /\ sock = "None"            \* another thread's failed exchange cleared the handle
          /\ Return(t, "open: AttributeError")
          /\ UNCHANGED <<sock, rxbuf, faulted, late>>
       \/ /\ sock # "None"
          /\ sock' = "conn"
          /\ rxbuf' = <<>>
          /\ faulted' = FALSE
          /\ late' = [u \in Threads |-> FALSE]
          /\ Return(t, "open: connected")
       \/ /\ sock # "None"            \* socket.error: lines 103-106
          /\ sock' = "None"
          /\ rxbuf' = <<>>
          /\ Return(t, "open: refused")
          /\ UNCHANGED <<faulted, late>>
    /\ UNCHANGED <<lock, got, sends>>

open_connection(t) ==
    \/ OC_create(t)
    \/ OC_connect(t)

NextTransport ==
    /\ \E t \in Threads :
          \/ eReg_send_query(t)
          \/ open_connection(t)
    /\ UNCHANGED <<dvars, svars>>

SpecTransport == TransportInit /\ [][NextTransport]_vars

\* The same steps with what the scheduling gives: sendall and recv return or
\* time out (socket.settimeout in open_connection), and a thread blocked in
\* `with self._lock:` gets the lock at one of the releases, the thread that
\* released it going back to its event loop before it calls again.
TransportFairness ==
    \A t \in Threads :
        /\ SF_vars(SQ_lock(t) /\ UNCHANGED <<dvars, svars>>)
        /\ WF_vars(SQ_sendall(t, eReg_on_socket_error) /\ UNCHANGED <<dvars, svars>>)
        /\ WF_vars(SQ_recv(t, eReg_on_socket_error) /\ UNCHANGED <<dvars, svars>>)

SpecTransportLive == TransportInit /\ [][NextTransport]_vars /\ TransportFairness

(***************************************************************************)
(* Model._send_query of model/model.py, lines 45-57: the same statements,  *)
(* but its except clause raises ConnectionError and leaves self._sock as   *)
(* it is.  A response the device sends late stays in the receive buffer of *)
(* the socket that is kept.                                                *)
(***************************************************************************)
MaxRx == 2

Model_on_socket_error == sock

Model_send_query(t) ==
    \/ SQ_check(t)
    \/ SQ_lock(t)
    \/ /\ Len(rxbuf) < MaxRx
       /\ SQ_sendall(t, Model_on_socket_error)
    \/ SQ_recv(t, Model_on_socket_error)

NextModel ==
    /\ \E t \in Threads :
          \/ Model_send_query(t)
          \/ open_connection(t)
    /\ UNCHANGED <<dvars, svars>>

ModelInit ==
    /\ TransportInit
    /\ sock = "None"                  \* Model.__init__ opens no connection

SpecModel == ModelInit /\ [][NextModel]_vars

(***************************************************************************)
(* The driver's operations at the grain of one exchange.  A call is a      *)
(* function of the handle it finds and of what the socket does during each *)
(* of its exchanges; its value records how the call ends, the handle it    *)
(* leaves and the commands whose bytes went out.  Pressures handed to the  *)
(* driver are in psi; the model counts them in hundredths.                 *)
(***************************************************************************)

\* What the socket does during one exchange: the device answers with a
\* payload or with an error code, sendall raises socket.error, or recv raises
\* socket.error (a timeout, a reset).  The error codes are looked up in one
\* table and end a call alike, so at this grain one of them stands for all.
Env == {"payload", "bcr", "send error", "recv error"}

\* Replies to the buffer read that are no error code: "payload" stands for a
\* list of numbers, "not ready" for a reply with a letter in it (sbe, scr),
\* "blank" for an empty reply, "malformed" for tokens float() rejects.
EnvBuf == Env \cup {"not ready", "blank", "malformed"}

\* eReg._send_query, lines 41-64, for one caller at a time.  A caller whose
\* check of line 41 came before another thread's `self.sock = None` reaches
\* line 49 with no socket ("stale handle"): AttributeError, which the except
\* clause of line 52 does not catch.
SendQuery(s, cmd, e) ==
    IF s # "conn"
      THEN IF e = "stale handle"
             THEN [res |-> "AttributeError", sock |-> s, wire |-> <<>>, resp |-> "none"]
             ELSE [res |-> "ConnectionError", sock |-> s, wire |-> <<>>, resp |-> "none"]
      ELSE IF e = "send error"
        THEN [res |-> "ConnectionError", sock |-> eReg_on_socket_error, wire |-> <<>>, resp |-> "none"]
        ELSE IF e = "recv error"
          THEN [res |-> "ConnectionError", sock |-> eReg_on_socket_error, wire |-> <<cmd>>, resp |-> "none"]
          ELSE [res |-> Decode(e), sock |-> s, wire |-> <<cmd>>, resp |-> e]

\* A value handed to a setter: a number (n), or something that is no number.
Num(n) == [type |-> "number", n |-> n]

NotANumber == [type |-> "str", n |-> 0]

\* The message of the setter's ValueError reads self.cal_pressure (lines 327-329),
\* which exists only once the controller has cached it.
RangeError(cal_attr) ==
    IF cal_attr = <<>> THEN "AttributeError" ELSE "ValueError"

\* eReg.pressure setter, lines 321-332.  `0 <= value <= float(self.calibration_pressure)`
\* evaluates its right-hand side, the calibration_pressure property and with it a
\* read-defaults exchange (lines 163-169, 289-294), whenever 0 <= value holds.
pressure_setter(s, cal_attr, v, e1, e2) ==
    IF v.type # "number"
      THEN [res |-> "ValueError", sock |-> s, wire |-> <<>>]
      ELSE IF ~(0 <= v.n)
        THEN [res |-> RangeError(cal_attr), sock |-> s, wire |-> <<>>]
        ELSE LET q1 == SendQuery(s, <<"rdc">>, e1) IN
             IF q1.res # "ok"
               THEN q1
               ELSE IF ~(v.n <= dev_cal)
                 THEN [res |-> RangeError(cal_attr), sock |-> q1.sock, wire |-> q1.wire]
                 ELSE LET q2 == SendQuery(q1.sock, <<"spc", v.n>>, e2) IN
                      [res |-> q2.res, sock |-> q2.sock, wire |-> q1.wire \o q2.wire]

\* eReg.calibration_pressure, lines 289-294, converted by the caller with float().
calibration_pressure(s, e) ==
    LET q == SendQuery(s, <<"rdc">>, e) IN
    [res |-> q.res, sock |-> q.sock, wire |-> q.wire,
     value |-> IF q.res = "ok" THEN dev_cal ELSE 0]

\* eReg.valves_off, lines 383-388.
valves_off(s, e) == SendQuery(s, <<"vfc">>, e)

\* eReg.valves_on, lines 390-395.
valves_on(s, e) == SendQuery(s, <<"voc">>, e)

\* eReg.sample_rate setter, lines 195-204, for an int value.
sample_rate_setter(s, value, e) ==
    IF ~(1 <= value /\ value <= 200)
      THEN [res |-> "ValueError", sock |-> s, wire |-> <<>>, resp |-> "none"]
      ELSE SendQuery(s, <<"ssrc", value>>, e)

\* eReg.start_sampling, lines 358-365, for an int number.
start_sampling(s, number, e) ==
    IF ~(1 <= number /\ number <= 10000)
      THEN [res |-> "ValueError", sock |-> s, wire |-> <<>>, resp |-> "none"]
      ELSE SendQuery(s, <<"ssc", number>>, e)

\* eReg.send_buffer, lines 336-343.
send_buffer(s, e) == SendQuery(s, <<"sbc">>, e)

(***************************************************************************)
(* SpecDriver: the driver called by one thread, each operation with every  *)
(* argument of a small set and every behaviour of the socket.              *)
(***************************************************************************)
DeviceCals == {3000, 4400}

\* Setter arguments: no number, below zero, the ends of the range, and past it.
Values ==
    {NotANumber} \cup {Num(n) : n \in {-1, 0, 1} \cup UNION {{c - 1, c, c + 1} : c \in DeviceCals}}

DriverInit ==
    /\ sock = "None"
    /\ lock = "free"
    /\ pc = [t \in Threads |-> "idle"]
    /\ rxbuf = <<>>
    /\ got = [t \in Threads |-> "None"]
    /\ outcome = [t \in Threads |-> "none"]
    /\ sends = [t \in Threads |-> 0]
    /\ late = [t \in Threads |-> FALSE]
    /\ faulted = FALSE
    /\ dev_cal \in DeviceCals
    /\ cal_pressure = <<>>
    /\ call = [op |-> "none"]
    /\ ControllerInit

\* eReg.open_connection followed by what Controller._init_ereg asks of the
\* driver (controller.py lines 64-66): valves_off, then the calibration
\* pressure is read and cached.  An exception ends _init_ereg where it is raised.
Drv_connect ==
    /\ sock = "None"
    /\ \E ok \in BOOLEAN, e1, e2 \in Env :
          IF ~ok
            THEN /\ call' = [op |-> "open_connection", res |-> "refused"]
                 /\ UNCHANGED <<sock, cal_pressure>>
            ELSE LET q1 == valves_off("conn", e1)
                     q2 == calibration_pressure(q1.sock, e2)
                 IN  IF q1.res # "ok"
                       THEN /\ sock' = q1.sock
                            /\ call' = [op |-> "_init_ereg", res |-> q1.res, wire |-> q1.wire]
                            /\ UNCHANGED cal_pressure
                       ELSE /\ sock' = q2.sock
                            /\ call' = [op |-> "_init_ereg", res |-> q2.res, wire |-> q1.wire \o q2.wire]
                            /\ cal_pressure' = IF q2.res = "ok" THEN <<q2.value>> ELSE cal_pressure
    /\ UNCHANGED <<lock, pc, rxbuf, got, outcome, sends, late, faulted, dev_cal, svars>>

\* `ereg.pressure = v`.  The controller writes a pressure only once
\* _init_ereg has cached cal_pressure.
Drv_set_pressure ==
    /\ cal_pressure # <<>>
    /\ \E v \in Values, e1, e2 \in Env :
          LET r == pressure_setter(sock, cal_pressure, v, e1, e2) IN
          /\ sock' = r.sock
          /\ call' = [op |-> "pressure.setter", arg |-> v, res |-> r.res, wire |-> r.wire]
    /\ UNCHANGED <<lock, pc, rxbuf, got, outcome, sends, late, faulted, dev_cal, cal_pressure, svars>>

NextDriver ==
    \/ Drv_connect
    \/ Drv_set_pressure

SpecDriver == DriverInit /\ [][NextDriver]_vars

(***************************************************************************)
(* SpecSetters: the integer-bounded writes of the driver, called by one    *)
(* thread with arguments at and around their bounds.                       *)
(***************************************************************************)
\* eReg.heartbeat setter, lines 222-231 (Model.heartbeat, model.py lines
\* 163-172, reads the same).  `not 50 <= value <= 65000 or value != 0` is
\* `(not 50 <= value <= 65000) or (value != 0)`.
heartbeat_setter(s, v, e) ==
    IF v.type # "number"
      THEN [res |-> "ValueError", sock |-> s, wire |-> <<>>]
      ELSE IF ~(50 <= v.n /\ v.n <= 65000) \/ v.n # 0
        THEN [res |-> "ValueError", sock |-> s, wire |-> <<>>]
        ELSE LET q == SendQuery(s, <<"shbc", v.n>>, e) IN
             [res |-> q.res, sock |-> q.sock, wire |-> q.wire]

\* eReg.sample_rate setter, lines 195-204, for any value.
sample_rate_any(s, v, e) ==
    IF v.type # "number"
      THEN [res |-> "ValueError", sock |-> s, wire |-> <<>>]
      ELSE LET q == sample_rate_setter(s, v.n, e) IN
           [res |-> q.res, sock |-> q.sock, wire |-> q.wire]

\* eReg.relay_timeout setter, lines 276-285.
relay_timeout_setter(s, v, e) ==
    IF v.type # "number"
      THEN [res |-> "ValueError", sock |-> s, wire |-> <<>>]
      ELSE IF ~(0 <= v.n /\ v.n <= 65000)
        THEN [res |-> "ValueError", sock |-> s, wire |-> <<>>]
        ELSE LET q == SendQuery(s, <<"srtc", v.n>>, e) IN
             [res |-> q.res, sock |-> q.sock, wire |-> q.wire]

\* eReg.start_sampling, lines 358-365, for any number that is not None.
start_sampling_any(s, v, e) ==
    IF v.type # "number"
      THEN [res |-> "ValueError", sock |-> s, wire |-> <<>>]
      ELSE LET q == start_sampling(s, v.n, e) IN
           [res |-> q.res, sock |-> q.sock, wire |-> q.wire]

\* eReg.set_sample_size, lines 374-381.
set_sample_size(s, v, e) ==
    IF v.type # "number"
      THEN [res |-> "ValueError", sock |-> s, wire |-> <<>>]
      ELSE IF ~(1 <= v.n /\ v.n <= 10000)
        THEN [res |-> "ValueError", sock |-> s, wire |-> <<>>]
        ELSE LET q == SendQuery(s, <<"sszc", v.n>>, e) IN
             [res |-> q.res, sock |-> q.sock, wire |-> q.wire]

\* eReg.fault_pressure setter, lines 249-258.  As in the pressure setter,
\* `0 <= value <= float(self.calibration_pressure)` makes a read-defaults
\* exchange whenever 0 <= value holds, and the message of the ValueError
\* reads self.cal_pressure.
fault_pressure_setter(s, cal_attr, v, e1, e2) ==
    IF v.type # "number"
      THEN [res |-> "ValueError", sock |-> s, wire |-> <<>>]
      ELSE IF ~(0 <= v.n)
        THEN [res |-> RangeError(cal_attr), sock |-> s, wire |-> <<>>]
        ELSE LET q1 == SendQuery(s, <<"rdc">>, e1) IN
             IF q1.res # "ok"
               THEN [res |-> q1.res, sock |-> q1.sock, wire |-> q1.wire]
               ELSE IF ~(v.n <= dev_cal)
                 THEN [res |-> RangeError(cal_attr), sock |-> q1.sock, wire |-> q1.wire]
                 ELSE LET q2 == SendQuery(q1.sock, <<"sfpc", v.n>>, e2) IN
                      [res |-> q2.res, sock |-> q2.sock, wire |-> q1.wire \o q2.wire]

\* The bounded writes: the command each sends and its bounds.
BoundedOps == {"sample_rate.setter", "relay_timeout.setter", "start_sampling",
               "set_sample_size", "fault_pressure.setter"}

Command(op) ==
    CASE op = "sample_rate.setter" -> "ssrc"
      [] op = "relay_timeout.setter" -> "srtc"
      [] op = "start_sampling" -> "ssc"
      [] op = "set_sample_size" -> "sszc"
      [] op = "fault_pressure.setter" -> "sfpc"
      [] op = "heartbeat.setter" -> "shbc"

Lower(op) ==
    CASE op = "sample_rate.setter" -> 1
      [] op = "relay_timeout.setter" -> 0
      [] op = "start_sampling" -> 1
      [] op = "set_sample_size" -> 1
      [] op = "fault_pressure.setter" -> 0

Upper(op) ==
    CASE op = "sample_rate.setter" -> 200
      [] op = "relay_timeout.setter" -> 65000
      [] op = "start_sampling" -> 10000
      [] op = "set_sample_size" -> 10000
      [] op = "fault_pressure.setter" -> dev_cal

\* Arguments: no number, and the numbers at and just past the given ends.
Around(ends) ==
    {NotANumber} \cup {Num(n) : n \in UNION {{c - 1, c, c + 1} : c \in ends}}

\* `ereg.heartbeat = v`
Drv_set_heartbeat ==
    /\ \E v \in Around({0, 50, 65000}), e \in Env :
          LET r == heartbeat_setter(sock, v, e) IN
          /\ sock' = r.sock
          /\ call' = [op |-> "heartbeat.setter", arg |-> v, res |-> r.res, wire |-> r.wire]
    /\ UNCHANGED <<lock, pc, rxbuf, got, outcome, sends, late, faulted, dev_cal, cal_pressure, svars>>

\* One of the bounded writes is called; the fault pressure, as the pressure,
\* once cal_pressure is cached.
Drv_set_bounded ==
    /\ \E op \in BoundedOps, e1, e2 \in Env :
        \E v \in Around({Lower(op), Upper(op)}) :
          LET r == CASE op = "sample_rate.setter" -> sample_rate_any(sock, v, e1)
                     [] op = "relay_timeout.setter" -> relay_timeout_setter(sock, v, e1)
                     [] op = "start_sampling" -> start_sampling_any(sock, v, e1)
                     [] op = "set_sample_size" -> set_sample_size(sock, v, e1)
                     [] op = "fault_pressure.setter" ->
                            fault_pressure_setter(sock, cal_pressure, v, e1, e2)
          IN
          /\ op = "fault_pressure.setter" => cal_pressure # <<>>
          /\ sock' = r.sock
          /\ call' = [op |-> op, arg |-> v, res |-> r.res, wire |-> r.wire]
    /\ UNCHANGED <<lock, pc, rxbuf, got, outcome, sends, late, faulted, dev_cal, cal_pressure, svars>>

\* What the socket does during an exchange of a bare command: each error
\* code, replies that are no error code, and the socket errors.
QueryEnv == Responses \cup {"blank", "not ready", "send error", "recv error"}

\* eReg._send_query called with a bare command (a getter such as
\* `ereg.heartbeat`, lines 207-212).
Drv_send_query ==
    /\ \E e \in QueryEnv :
          LET q == SendQuery(sock, <<"rhbc">>, e) IN
          /\ sock' = q.sock
          /\ call' = [op |-> "_send_query", arg |-> Num(0), res |-> q.res, wire |-> q.wire,
                      resp |-> q.resp]
    /\ UNCHANGED <<lock, pc, rxbuf, got, outcome, sends, late, faulted, dev_cal, cal_pressure, svars>>

NextSetters ==
    \/ Drv_connect
    \/ Drv_set_heartbeat
    \/ Drv_set_bounded
    \/ Drv_send_query

SpecSetters == DriverInit /\ [][NextSetters]_vars

(***************************************************************************)
(* Spec: the polling worker, the sweep worker and the controller slots.    *)
(*                                                                         *)
(* PollingWorker.doWork is called by the polling timer's slot in the main  *)
(* thread, and it emits its signals to slots of the same thread, so one    *)
(* polling tick with the slot it triggers is one step.  SweepWorker runs   *)
(* its timer in the sweep thread; its signals reach the controller through *)
(* the main thread's event queue.  Exchanges are serialized by the lock    *)
(* (SpecTransport), so a call of the driver is taken as one step; what is  *)
(* left of the interleaving is the stale handle of SendQuery.  The rate    *)
(* entry keeps its text; the mode buttons are clicked in SpecPurge only.   *)
(***************************************************************************)
MaxSpan == 3

\* Texts typed into the pressure entry and into the span entry before a
\* sweep is started.
SweepPressures == {Text(1000)}

SweepSpans == {Text(MaxSpan)}

StaleEnv(t) == IF t \in stale /\ sock = "None" THEN {"stale handle"} ELSE {}

\* What the socket does during the exchanges of one slot: the first failure
\* ends the slot's use of the driver, so one exchange, the n-th, is given
\* an answer x of its own and the others get their payload.
Script(n, x) == [i \in 1..3 |-> IF i = n THEN x ELSE "payload"]

\* The handle and the stale callers after thread t's call left the handle s1.
AfterCall(t, called, s1) ==
    /\ sock' = s1
    /\ stale' = IF ~called THEN stale
                ELSE IF sock = "conn" /\ s1 = "None"
                  THEN (stale \ {t}) \cup (IF t = "sweep" THEN {"main"}
                                           ELSE IF sweep_pc = "write" THEN {"sweep"} ELSE {})
                  ELSE stale \ {t}

\* helpers.convert_mbar_to_psi: mbar / 68.9476 rounded to two decimals, in
\* hundredths of a psi (the quotient 1000000 * mbar / 689476, rounded, with
\* numerator and denominator halved twice to stay within 32 bits).
PsiToMbarE4 == 689476

convert_mbar_to_psi(mbar) == (500000 * mbar + PsiToMbarE4 \div 4) \div (PsiToMbarE4 \div 2)

(************************* PollingWorker.doWork ****************************)
\* A cycle started whatever the flag.
StartsCycleAlways(w) == TRUE

\* line 42: `if not self.working`
StartsCycle(w) == ~w

\* The flag left as it is.
KeepFlag(w) == w

\* lines 48, 52, 70, 73, 76: `self.working = False`
ClearFlag(w) == FALSE

\* lines 47-54 and 72-77: the signal an exception is turned into.
ErrorSignal(res) ==
    IF res = "ConnectionError" THEN "conn_error_sig" ELSE "unexpected_error_sig"

\* lines 45-46
doWork_start(s, e1, e2) ==
    LET q1 == sample_rate_setter(s, 10, e1) IN
    IF q1.res # "ok"
      THEN q1
      ELSE LET q2 == start_sampling(q1.sock, 21, e2) IN
           [res |-> q2.res, sock |-> q2.sock, wire |-> q1.wire \o q2.wire, resp |-> q2.resp]

\* lines 42-77.  The value: the flag and the handle the call leaves, the
\* commands it sent, the step it ended at, the reply to the buffer read, the
\* signal emitted, whether it set the flag and how often it cleared it.
doWork(w, s, e1, e2, e3) ==
    LET begin == StartsCycle(w)
        flag == IF begin THEN TRUE ELSE w
        a == IF begin THEN doWork_start(s, e1, e2)
                      ELSE [res |-> "ok", sock |-> s, wire |-> <<>>, resp |-> "none"]
    IN  IF a.res # "ok"
          THEN [working |-> ClearFlag(flag), sock |-> a.sock, wire |-> a.wire, step |-> "start",
                reply |-> "none", event |-> ErrorSignal(a.res), began |-> begin, clears |-> 1]
          ELSE LET b == send_buffer(a.sock, e3)
                   wire == a.wire \o b.wire
               IN  IF b.res # "ok"
                     THEN [working |-> ClearFlag(flag), sock |-> b.sock, wire |-> wire, step |-> "read",
                           reply |-> "none", event |-> ErrorSignal(b.res), began |-> begin, clears |-> 1]
                     ELSE IF b.resp \in {"not ready", "blank"}
                       THEN [working |-> flag, sock |-> b.sock, wire |-> wire, step |-> "read",
                             reply |-> b.resp, event |-> "none", began |-> begin, clears |-> 0]
                       ELSE IF b.resp = "malformed"
                         THEN [working |-> ClearFlag(flag), sock |-> b.sock, wire |-> wire, step |-> "read",
                               reply |-> b.resp, event |-> ErrorSignal("ValueError"), began |-> begin, clears |-> 1]
                         ELSE [working |-> ClearFlag(flag), sock |-> b.sock, wire |-> wire, step |-> "read",
                               reply |-> b.resp, event |-> "result_sig", began |-> begin, clears |-> 1]

CommandNames(wire) == [i \in 1..Len(wire) |-> wire[i][1]]

Count(seq, x) == Cardinality({i \in 1..Len(seq) : seq[i] = x})

(************************* MainWindow: UI states ***************************)
\* main_window.py lines 367-380
set_disconnected_state(m) ==
    [m EXCEPT !.operate_text = "DISCONNECTED", !.operate_checked = FALSE, !.operate_enabled = FALSE,
              !.rb_enabled = TRUE, !.purge_btn = FALSE, !.entry_enabled = TRUE,
              !.reading = "dashes", !.sweep_tab = FALSE]

\* lines 382-394
set_valves_disabled_state(m) ==
    [m EXCEPT !.operate_checked = FALSE, !.operate_text = "VALVES DISABLED", !.operate_enabled = TRUE,
              !.purge_btn = TRUE, !.rb_enabled = TRUE, !.entry_enabled = TRUE, !.sweep_tab = FALSE]

\* lines 412-425
set_pressurize_state(m) ==
    [m EXCEPT !.sweep_tab = TRUE, !.sweep_rb_enabled = TRUE, !.ext_sweep_btn = FALSE,
              !.start_sweep_btn = TRUE, !.stop_sweep_btn = FALSE]

\* main_window.py lines 427-432, the state image aside.
set_vent_state(m) == [m EXCEPT !.sweep_tab = FALSE]

\* main_window.py lines 434-439, the state image aside.
set_bypass_state(m) == [m EXCEPT !.sweep_tab = FALSE]

\* lines 396-410
set_valves_active_state(m) ==
    LET m1 == [m EXCEPT !.operate_text = "VALVES ACTIVE", !.operate_enabled = TRUE,
                        !.rb_enabled = TRUE, !.purge_btn = TRUE]
        m2 == CASE m.operate_rb = 101 -> set_pressurize_state(m1)
                [] m.operate_rb = 102 -> set_vent_state(m1)
                [] OTHER -> set_bypass_state(m1)
    IN  [m2 EXCEPT !.entry_enabled = TRUE]

\* lines 443-456
set_pressure_sweep_state(m) ==
    [m EXCEPT !.operate_enabled = FALSE, !.rb_enabled = FALSE, !.purge_btn = FALSE,
              !.entry_enabled = FALSE, !.sweep_rb_enabled = FALSE, !.ext_sweep_btn = TRUE,
              !.start_sweep_btn = FALSE, !.stop_sweep_btn = TRUE]

(************************* Controller: main tab ****************************)
tquiet == <<lock, pc, rxbuf, got, outcome, sends, late, faulted>>

device == <<dev_cal, call>>

pollvars == <<working, poll, cyc>>

sweepvars == <<sweep_worker, worker_ref, sweep_thread, sweep_timer, sweep_pc, sigq, sw>>

timers == <<bleed_supply_timer, purge_timer, purge_count, blip>>

\* controller.py lines 321-338.  An exception of the setter leaves the slot.
receive_pressure_change_sig(m, s, new_pressure, old_pressure, e1, e2) ==
    IF new_pressure = <<>>
      THEN [mw |-> [m EXCEPT !.entry = old_pressure], sock |-> s, res |-> "none", called |-> FALSE]
      ELSE LET p == new_pressure[1] IN
           IF ~(0 <= p /\ p <= 3033)
             THEN [mw |-> [m EXCEPT !.entry = old_pressure], sock |-> s, res |-> "none", called |-> FALSE]
             ELSE IF ~m.operate_checked
               THEN [mw |-> m, sock |-> s, res |-> "none", called |-> FALSE]
               ELSE LET r == pressure_setter(s, cal_pressure, Num(convert_mbar_to_psi(p)), e1, e2) IN
                    [mw |-> m, sock |-> r.sock, res |-> r.res, called |-> TRUE]

\* main_window.py lines 499-511.  The slot of pressure_change_sig is called
\* by the emit; what it raises is printed and the emit returns.
handle_pressure_input(m, s, e1, e2) ==
    IF ~m.operate_enabled \/ m.operate_rb # 101
      THEN [mw |-> m, sock |-> s, res |-> "none", called |-> FALSE]
      ELSE LET old_pressure == m.last_valid_pressure
               new_pressure == m.entry
           IN  receive_pressure_change_sig([m EXCEPT !.last_valid_pressure = new_pressure],
                                           s, new_pressure, old_pressure, e1, e2)

\* controller.py lines 261-265
receive_pressurize_sig(m, s, e1, e2) ==
    IF ~m.operate_checked
      THEN [mw |-> m, sock |-> s, res |-> "none", called |-> FALSE]
      ELSE LET r == handle_pressure_input(m, s, e1, e2) IN
           [mw |-> set_pressurize_state(r.mw), sock |-> r.sock, res |-> r.res, called |-> r.called]

\* controller.py lines 268-272.  An exception of the setter leaves the slot.
receive_vent_sig(m, s, e1, e2) ==
    IF ~m.operate_checked
      THEN [mw |-> m, sock |-> s, res |-> "none", called |-> FALSE]
      ELSE LET r == pressure_setter(s, cal_pressure, Num(0), e1, e2) IN
           [mw |-> IF r.res = "ok" THEN set_vent_state(m) ELSE m,
            sock |-> r.sock, res |-> r.res, called |-> TRUE]

\* controller.py lines 275-279
receive_bypass_sig(m, s, e1, e2) ==
    IF ~m.operate_checked
      THEN [mw |-> m, sock |-> s, res |-> "none", called |-> FALSE]
      ELSE IF cal_pressure = <<>>
        THEN [mw |-> m, sock |-> s, res |-> "AttributeError", called |-> FALSE]
        ELSE LET r == pressure_setter(s, cal_pressure, Num(cal_pressure[1]), e1, e2) IN
             [mw |-> IF r.res = "ok" THEN set_bypass_state(m) ELSE m,
              sock |-> r.sock, res |-> r.res, called |-> TRUE]

\* The signal of the checked mode is emitted: controller.py lines 248-254
\* and 296-302, main_window.py lines 468-474.
emit_checked_mode(id, m, s, e1, e2) ==
    CASE id = 101 -> receive_pressurize_sig(m, s, e1, e2)
      [] id = 102 -> receive_vent_sig(m, s, e1, e2)
      [] id = 103 -> receive_bypass_sig(m, s, e1, e2)
      [] OTHER -> [mw |-> m, sock |-> s, res |-> "none", called |-> FALSE]

\* controller.py lines 245-258
receive_operate_sig(m, s, checked, e0, e1, e2) ==
    IF checked
      THEN LET q == valves_on(s, e0) IN
           IF q.res # "ok"
             THEN [mw |-> m, sock |-> q.sock, res |-> q.res, called |-> TRUE]
             ELSE LET r == emit_checked_mode(m.operate_rb, m, q.sock, e1, e2) IN
                  [mw |-> set_valves_active_state(r.mw), sock |-> r.sock, res |-> r.res, called |-> TRUE]
      ELSE LET q == valves_off(s, e0) IN
           IF q.res # "ok"
             THEN [mw |-> m, sock |-> q.sock, res |-> q.res, called |-> TRUE]
             ELSE [mw |-> set_valves_disabled_state(m), sock |-> q.sock, res |-> "none", called |-> TRUE]

\* The operate button is clicked: main_window.py lines 513-516.
OperateBtn ==
    /\ app = "running"
    /\ mw.operate_enabled
    /\ \E n \in 1..3, x \in Env \cup StaleEnv("main") :
          LET checked == ~mw.operate_checked
              e == Script(n, x)
              r == receive_operate_sig([mw EXCEPT !.operate_checked = checked], sock, checked, e[1], e[2], e[3])
          IN  /\ mw' = r.mw
              /\ AfterCall("main", r.called, r.sock)
    /\ UNCHANGED <<timers, tquiet, device, cal_pressure, pollvars, polling_timer, sweepvars, app>>

\* A mode button is clicked: main_window.py line 158 and lines 467-474.
SelectMode ==
    /\ app = "running"
    /\ mw.rb_enabled
    /\ \E id \in {101, 102, 103}, n \in 1..2, x \in Env \cup StaleEnv("main") :
          LET e == Script(n, x)
              r == emit_checked_mode(id, [mw EXCEPT !.operate_rb = id], sock, e[1], e[2])
          IN  /\ mw' = r.mw
              /\ AfterCall("main", r.called, r.sock)
    /\ UNCHANGED <<timers, tquiet, device, cal_pressure, pollvars, polling_timer, sweepvars, app>>

\* Text is typed into the pressure entry and editing is finished.  When
\* observed, a pressure that was written is left in `call`.
EditPressure(texts, observed) ==
    /\ app = "running"
    /\ mw.entry_enabled
    /\ \E text \in texts, n \in 1..2, x \in Env \cup StaleEnv("main") :
          LET e == Script(n, x)
              r == handle_pressure_input([mw EXCEPT !.entry = text], sock, e[1], e[2])
          IN
          /\ mw' = r.mw
          /\ AfterCall("main", r.called, r.sock)
          /\ IF observed /\ r.called /\ r.res = "ok"
               THEN call' = [op |-> "pressure", by |-> "main", mbar |-> text[1], last |-> FALSE]
               ELSE UNCHANGED call
    /\ UNCHANGED <<timers, tquiet, dev_cal, cal_pressure, pollvars, polling_timer, sweepvars, app>>

(************************* Controller: connection **************************)
\* A stop request that flips the running flag.
StopSweepToggles(by) ==
    /\ sweep_worker' = [sweep_worker EXCEPT !._is_running = ~@]
    /\ UNCHANGED <<sw, worker_ref, sweep_thread>>

\* controller.py lines 103-111 and 168-176: the sweep is asked to stop.
StopSweep(by) ==
    IF sweep_thread = "running" /\ worker_ref = "object"
      THEN /\ sweep_worker' = [sweep_worker EXCEPT !._is_running = FALSE]
           /\ sw' = IF sw.cancel # "no" THEN sw
                    ELSE [sw EXCEPT !.cancel = by, !.at = sweep_worker.steps_taken,
                                    !.midtick = (sweep_pc = "write")]
           /\ UNCHANGED <<worker_ref, sweep_thread>>
      ELSE IF sweep_thread = "deleted"
        THEN /\ sweep_thread' = "None"
             /\ worker_ref' = "None"
             /\ UNCHANGED <<sweep_worker, sw>>
        ELSE UNCHANGED <<sweep_worker, sw, worker_ref, sweep_thread>>

\* controller.py lines 87-93
receive_result_sig ==
    /\ mw' = [mw EXCEPT !.reading = "value"]
    /\ UNCHANGED <<polling_timer, sweep_worker, sw, worker_ref, sweep_thread>>

\* controller.py lines 96-113
receive_conn_error_sig ==
    /\ polling_timer' = FALSE
    /\ StopSweep("conn_error")
    /\ mw' = set_disconnected_state(mw)

\* An unexpected error handled as a lost connection is: the sweep is asked
\* to stop.
unexpected_error_stops_sweep ==
    /\ polling_timer' = FALSE
    /\ StopSweep("conn_error")
    /\ mw' = [mw EXCEPT !.reading = "dashes"]

\* controller.py lines 116-124
receive_unexpected_error ==
    /\ polling_timer' = FALSE
    /\ mw' = [mw EXCEPT !.reading = "dashes"]
    /\ UNCHANGED <<sweep_worker, sw, worker_ref, sweep_thread>>

\* The polling timer fires: controller.py lines 74-80, PollingWorker.doWork
\* and the slot of the signal it emits.  poll and cyc are history variables
\* that record what the tick did; they are written when observed is TRUE.
PollTick(observed) ==
    /\ app = "running"
    /\ polling_timer
    /\ \E n \in 1..3, x \in EnvBuf \cup StaleEnv("main") :
          LET e == Script(n, x)
              r == doWork(working, sock, e[1], e[2], e[3])
              names == CommandNames(r.wire)
              base == IF working THEN cyc ELSE NoCycle
          IN  /\ working' = r.working
              /\ IF observed
                   THEN /\ poll' = [entry |-> working, wire |-> names, step |-> r.step,
                                    reply |-> r.reply, event |-> r.event,
                                    during |-> sweep_timer]
                        /\ cyc' = [starts |-> base.starts + Count(names, "ssc"),
                                   clears |-> base.clears + r.clears,
                                   events |-> base.events + (IF r.event = "none" THEN 0 ELSE 1),
                                   waited |-> base.waited \/ r.event = "none"]
                   ELSE UNCHANGED <<poll, cyc>>
              /\ AfterCall("main", TRUE, r.sock)
              /\ CASE r.event = "result_sig" -> receive_result_sig
                   [] r.event = "conn_error_sig" -> receive_conn_error_sig
                   [] r.event = "unexpected_error_sig" -> receive_unexpected_error
                   [] OTHER -> UNCHANGED <<polling_timer, mw, sweep_worker, sw, worker_ref, sweep_thread>>
    /\ UNCHANGED <<timers, tquiet, device, cal_pressure, sweep_timer, sweep_pc, sigq, app>>

\* The polling timer started before the two exchanges.
_init_ereg_timer_first(e1, e2) ==
    LET q1 == valves_off("conn", e1)
        q2 == calibration_pressure(q1.sock, e2)
    IN  IF q1.res # "ok"
          THEN [res |-> q1.res, sock |-> q1.sock, cal |-> cal_pressure, timer |-> TRUE]
          ELSE IF q2.res # "ok"
            THEN [res |-> q2.res, sock |-> q2.sock, cal |-> cal_pressure, timer |-> TRUE]
            ELSE [res |-> "ok", sock |-> q2.sock, cal |-> <<q2.value>>, timer |-> TRUE]

\* controller.py lines 64-67, called with a handle that was just connected.
\* An exception ends it where it is raised.
_init_ereg(e1, e2) ==
    LET q1 == valves_off("conn", e1)
        q2 == calibration_pressure(q1.sock, e2)
    IN  IF q1.res # "ok"
          THEN [res |-> q1.res, sock |-> q1.sock, cal |-> cal_pressure, timer |-> polling_timer]
          ELSE IF q2.res # "ok"
            THEN [res |-> q2.res, sock |-> q2.sock, cal |-> cal_pressure, timer |-> polling_timer]
            ELSE [res |-> "ok", sock |-> q2.sock, cal |-> <<q2.value>>, timer |-> TRUE]

\* Connect is pressed in the reconnect window, which offers it when it was
\* opened without a handle: controller.py lines 341-356.
Reconnect ==
    /\ app = "running"
    /\ sock = "None"
    /\ \E connected \in BOOLEAN, n \in 1..2, x \in Env :
          IF ~connected
            THEN UNCHANGED <<sock, stale, cal_pressure, polling_timer, mw>>
            ELSE LET r == _init_ereg(Script(n, x)[1], Script(n, x)[2]) IN
                 /\ sock' = r.sock
                 /\ stale' = IF r.sock = "None" /\ sweep_pc = "write" THEN {"sweep"} ELSE {}
                 /\ cal_pressure' = r.cal
                 /\ polling_timer' = r.timer
                 /\ mw' = IF r.res = "ok" THEN set_valves_disabled_state(mw) ELSE mw
    /\ UNCHANGED <<timers, tquiet, device, pollvars, sweepvars, app>>

(************************* Controller: sweep tab ***************************)
\* main_window.py lines 528-544.  reply is the answer to the low-pressure
\* warning, should it be shown.
_check_span(m, reply) ==
    IF m.entry = <<>> \/ m.span_entry = <<>>
      THEN "ValueError"
      ELSE LET current_pressure_setting == m.entry[1]
               span == m.span_entry[1]
           IN  IF m.sweep_rb = 201
                 THEN IF current_pressure_setting - span < 0 THEN "False"
                      ELSE IF current_pressure_setting - span < 1000
                        THEN (IF reply THEN "True" ELSE "False")
                        ELSE "True"
                 ELSE IF current_pressure_setting + span > 3033 THEN "False" ELSE "True"

\* main_window.py lines 552-556
Direction(m) == IF m.sweep_rb = 201 THEN "H2L" ELSE "L2H"

\* The attributes SweepWorker.__init__ sets: sweep_worker.py lines 17-25.
SweepWorkerAttrs ==
    {"ereg", "current_pressure", "target_count", "steps_taken", "direction_val", "_is_running", "timer"}

\* sweep_worker.py lines 13-28
SweepWorker_init(starting_pressure, span, direction) ==
    [current_pressure |-> starting_pressure, target_count |-> span, steps_taken |-> 0,
     direction_val |-> IF direction = "H2L" THEN -1 ELSE 1, _is_running |-> TRUE]

\* Start is clicked: main_window.py lines 546-564, then controller.py lines
\* 133-164.  Sweeps are explored for spans up to MaxSpan, from the entry
\* texts of pressures.
StartSweepBtn(pressures) ==
    /\ app = "running"
    /\ mw.sweep_tab /\ mw.start_sweep_btn
    /\ mw.span_entry # <<>> => mw.span_entry[1] <= MaxSpan
    /\ mw.entry \in pressures
    /\ \E reply \in BOOLEAN :
          LET ok == _check_span(mw, reply) IN
          IF ok = "ValueError"
            THEN UNCHANGED <<mw, sweepvars, app>>
            ELSE IF ok = "False"
              THEN UNCHANGED <<mw, sweepvars, app>>
              ELSE IF sweep_thread = "running"
                THEN /\ app' = "second sweep"
                     /\ UNCHANGED <<mw, sweepvars>>
                ELSE /\ mw' = set_pressure_sweep_state(mw)
                     /\ sweep_worker' = SweepWorker_init(mw.entry[1], mw.span_entry[1], Direction(mw))
                     /\ worker_ref' = "object"
                     /\ sweep_thread' = "running"
                     /\ sweep_pc' = "start"
                     /\ sweep_timer' = FALSE
                     /\ sw' = [NoSweep EXCEPT !.P = mw.entry[1], !.N = mw.span_entry[1]]
                     /\ UNCHANGED <<sigq, app>>
    /\ UNCHANGED <<timers, tvars, dvars, pollvars, polling_timer, stale>>

\* Stop is clicked: main_window.py lines 566-567, controller.py lines 167-176.
StopSweepBtn ==
    /\ app = "running"
    /\ mw.sweep_tab /\ mw.stop_sweep_btn
    /\ StopSweep("stop")
    /\ UNCHANGED <<timers, tvars, dvars, pollvars, polling_timer, mw, sweep_timer, sweep_pc, sigq,
                   stale, app>>

\* controller.py lines 181-218, for a request that gets past line 186.
\* reply is the answer to the low-pressure warning, should it be shown.
ext_sweep(m, w, has_worker, value, reply) ==
    LET direction_val == IF has_worker THEN w.direction_val ELSE 0
        starting_p_setting == IF has_worker THEN w.starting_pressure ELSE 0
        current_span == m.span_entry[1]
        starting_target == starting_p_setting + (current_span * direction_val)
        attempted_target == starting_p_setting + ((current_span + value) * direction_val)
        over == attempted_target > 3033
        new_span1 == IF over THEN 3033 - starting_p_setting ELSE current_span + value
        value1 == IF over THEN new_span1 - current_span ELSE value
        m1 == IF over THEN [m EXCEPT !.ext_sweep_btn = FALSE] ELSE m
        warned == starting_target >= 1000 /\ attempted_target < 1000 /\ direction_val = -1
        under == attempted_target < 0
        new_span == IF under THEN starting_p_setting ELSE new_span1
        value2 == IF under THEN value1 + attempted_target ELSE value1
        m2 == IF under THEN [m1 EXCEPT !.ext_sweep_btn = FALSE] ELSE m1
    IN  IF warned /\ ~reply
          THEN [mw |-> m1, worker |-> w]
          ELSE [mw |-> [m2 EXCEPT !.span_entry = Text(new_span),
                                  !.bar_maximum = @ + value2],
                worker |-> IF has_worker THEN [w EXCEPT !.target_count = @ + value2] ELSE w]

\* An extension that starts the count of the steps again.
ext_sweep_recounts(value) ==
    /\ sw' = [sw EXCEPT !.extend = "done"]
    /\ sweep_worker' = [sweep_worker EXCEPT !.steps_taken = 0, !.target_count = @ + value]
    /\ UNCHANGED mw

\* controller.py lines 179-218.  Line 186 reads the worker's
\* starting_pressure.
receive_ext_sweep_sig(value) ==
    \E reply \in BOOLEAN :
       IF worker_ref = "object" /\ "starting_pressure" \notin SweepWorkerAttrs
         THEN /\ sw' = [sw EXCEPT !.extend = "AttributeError"]
              /\ UNCHANGED <<mw, sweep_worker>>
         ELSE IF mw.span_entry = <<>>
           THEN /\ sw' = [sw EXCEPT !.extend = "ValueError"]
                /\ UNCHANGED <<mw, sweep_worker>>
           ELSE LET r == ext_sweep(mw, sweep_worker, worker_ref = "object", value, reply) IN
                /\ mw' = r.mw
                /\ sweep_worker' = r.worker
                /\ sw' = [sw EXCEPT !.extend = IF r.worker = sweep_worker THEN "declined" ELSE "done"]

\* "Add 50 to span" is clicked: main_window.py lines 569-570.
ExtSweepBtn ==
    /\ app = "running"
    /\ mw.sweep_tab /\ mw.ext_sweep_btn
    /\ receive_ext_sweep_sig(50)
    /\ UNCHANGED <<timers, tvars, dvars, pollvars, polling_timer, worker_ref, sweep_thread, sweep_timer,
                   sweep_pc, sigq, stale, app>>

\* Text is typed into the span entry, which stays enabled during a sweep.
EditSpan(texts) ==
    /\ app = "running"
    /\ mw.sweep_tab
    /\ \E text \in texts : mw' = [mw EXCEPT !.span_entry = text]
    /\ UNCHANGED <<timers, tvars, dvars, pollvars, polling_timer, sweepvars, stale, app>>

\* A direction button is clicked.
SelectDirection ==
    /\ app = "running"
    /\ mw.sweep_tab /\ mw.sweep_rb_enabled
    /\ \E id \in {201, 202} : mw' = [mw EXCEPT !.sweep_rb = id]
    /\ UNCHANGED <<timers, tvars, dvars, pollvars, polling_timer, sweepvars, stale, app>>

(************************* SweepWorker *************************************)
\* The running flag not looked at.
IgnoreStop(w) == TRUE

\* sweep_worker.py line 35
IsRunning(w) == w._is_running

\* One step more than the target.
StepsLeftInclusive(w) == w.steps_taken <= w.target_count

\* sweep_worker.py line 39
StepsLeft(w) == w.steps_taken < w.target_count

\* The sweep thread is not stopped by the closing of the window
\* (controller.py lines 359-367).
SweepThreadRuns == app \in {"running", "closed"}

\* sweep_worker.py lines 30-32, run when the sweep thread has started.
SweepWorker_doWork ==
    /\ SweepThreadRuns
    /\ sweep_pc = "start"
    /\ sigq' = Append(sigq, <<"sweep_started_sig", sweep_worker.target_count>>)
    /\ sweep_timer' = TRUE
    /\ sweep_pc' = "idle"
    /\ UNCHANGED <<timers, tvars, dvars, pollvars, polling_timer, mw, sweep_worker, worker_ref,
                   sweep_thread, sw, stale, app>>

\* sweep_worker.py lines 35-39 and 45-47: the timer fires.
take_step_begin ==
    /\ SweepThreadRuns
    /\ sweep_timer /\ sweep_pc = "idle"
    /\ IF IsRunning(sweep_worker) /\ StepsLeft(sweep_worker)
         THEN /\ sweep_pc' = "write"
              /\ UNCHANGED <<sweep_timer, sigq, sw>>
         ELSE /\ sweep_timer' = FALSE
              /\ sigq' = Append(sigq, <<"sweep_finished_sig">>)
              /\ sw' = [sw EXCEPT !.finished = @ + 1]
              /\ UNCHANGED sweep_pc
    /\ UNCHANGED <<timers, tvars, dvars, pollvars, polling_timer, mw, sweep_worker, worker_ref,
                   sweep_thread, stale, app>>

\* sweep_worker.py lines 40-44.  An exception of the setter leaves take_step.
take_step_write ==
    /\ SweepThreadRuns
    /\ sweep_pc = "write"
    /\ \E n \in 1..2, x \in Env \cup StaleEnv("sweep") :
          LET w == sweep_worker
              e == Script(n, x)
              r == pressure_setter(sock, cal_pressure, Num(convert_mbar_to_psi(w.current_pressure)), e[1], e[2])
          IN  /\ AfterCall("sweep", TRUE, r.sock)
              /\ sw' = [sw EXCEPT !.raised = IF r.res = "ok" THEN "none" ELSE r.res,
                                   !.written = IF r.res = "ok" THEN <<w.current_pressure>> ELSE @]
              /\ IF r.res = "ok"
                   THEN /\ sweep_worker' = [w EXCEPT !.current_pressure = @ + w.direction_val,
                                                     !.steps_taken = @ + 1]
                        /\ sigq' = sigq \o <<<<"current_pressure_sig", w.current_pressure + w.direction_val>>,
                                             <<"sweep_progress_sig", w.steps_taken + 1>>>>
                   ELSE UNCHANGED <<sweep_worker, sigq>>
    /\ sweep_pc' = "idle"
    /\ UNCHANGED <<timers, tquiet, device, cal_pressure, pollvars, polling_timer, mw, worker_ref,
                   sweep_thread, sweep_timer, app>>

\* The main thread handles the next queued signal of the sweep worker:
\* controller.py lines 221-240, and line 149 for sweep_finished_sig.
DeliverSignal ==
    /\ app = "running"
    /\ sigq # <<>>
    /\ LET sig == Head(sigq) IN
       CASE sig[1] = "sweep_started_sig" ->
              /\ mw' = [mw EXCEPT !.bar_maximum = sig[2]]
              /\ UNCHANGED <<sweep_thread, sweep_pc>>
         [] sig[1] = "current_pressure_sig" ->
              /\ mw' = [mw EXCEPT !.entry = Text(sig[2])]
              /\ UNCHANGED <<sweep_thread, sweep_pc>>
         [] sig[1] = "sweep_progress_sig" ->
              /\ mw' = [mw EXCEPT !.bar_value = IF sig[2] <= mw.bar_maximum THEN sig[2] ELSE @]
              /\ UNCHANGED <<sweep_thread, sweep_pc>>
         [] OTHER ->
              /\ sweep_thread' = "finished"
              /\ sweep_pc' = "off"
              /\ mw' = [set_valves_active_state(mw) EXCEPT !.bar_value = 0]
    /\ sigq' = Tail(sigq)
    /\ UNCHANGED <<timers, tvars, dvars, pollvars, polling_timer, sweep_worker, worker_ref, sweep_timer,
                   sw, stale, app>>

\* controller.py line 153: the finished thread is deleted.
ThreadDeleted ==
    /\ app = "running"
    /\ sweep_thread = "finished"
    /\ sweep_thread' = "deleted"
    /\ UNCHANGED <<timers, tvars, dvars, pollvars, polling_timer, mw, sweep_worker, worker_ref,
                   sweep_timer, sweep_pc, sigq, sw, stale, app>>

(************************* Controller: purge, bleed supply, closing ********)
\* What a step of the purge or of the bleed supply leaves in `call` when it is observed.
Noted(observed, note) ==
    IF observed THEN call' = note ELSE UNCHANGED call

\* Every purge tick asks for vent.
purge_vents(count) == "vent"

\* The mode a purge tick asks for: controller.py lines 287-290.
purge_mode(count) == IF count % 2 = 0 THEN "vent" ELSE "bypass"

\* The pressure a call of a mode slot wrote, if it wrote one.
Wrote(r, value) == IF r.called /\ r.res = "ok" THEN <<value>> ELSE <<>>

\* The purge button is pressed and stays down: main_window.py lines
\* 518-520, controller.py lines 282-284.
PurgePressed(observed) ==
    /\ app = "running"
    /\ mw.purge_btn /\ ~mw.purge_down
    /\ mw' = [mw EXCEPT !.purge_down = TRUE]
    /\ IF mw.operate_checked
         THEN /\ purge_timer' = TRUE /\ purge_count' = 0
              /\ Noted(observed, [op |-> "purge start"])
         ELSE UNCHANGED <<purge_timer, purge_count, call>>
    /\ UNCHANGED <<tvars, dev_cal, cal_pressure, pollvars, polling_timer, sweepvars,
                   bleed_supply_timer, blip, stale, app>>

\* The purge button that is down is released (a button that is disabled
\* while down emits released as well): main_window.py lines 522-524,
\* controller.py lines 294-302.
PurgeReleased(observed) ==
    /\ app = "running"
    /\ mw.purge_down
    /\ IF ~mw.operate_checked
         THEN /\ mw' = [mw EXCEPT !.purge_down = FALSE]
              /\ UNCHANGED <<purge_timer, sock, stale, call>>
         ELSE /\ purge_timer' = FALSE
              /\ \E n \in 1..2, x \in Env \cup StaleEnv("main") :
                    LET e == Script(n, x)
                        r == emit_checked_mode(mw.operate_rb, mw, sock, e[1], e[2])
                    IN  /\ mw' = [r.mw EXCEPT !.purge_down = FALSE]
                        /\ AfterCall("main", r.called, r.sock)
                        /\ Noted(observed, [op |-> "purge stop", id |-> mw.operate_rb,
                                            called |-> r.called, res |-> r.res])
    /\ UNCHANGED <<tquiet, dev_cal, cal_pressure, pollvars, polling_timer, sweepvars,
                   bleed_supply_timer, purge_count, blip, app>>

\* The purge timer fires: controller.py lines 286-291.  What the slot of
\* the emitted signal raises is printed, and the count goes on.
start_purging(observed) ==
    /\ app = "running"
    /\ purge_timer
    /\ \E n \in 1..2, x \in Env \cup StaleEnv("main") :
          LET e == Script(n, x)
              mode == purge_mode(purge_count)
              r == IF mode = "vent" THEN receive_vent_sig(mw, sock, e[1], e[2])
                                    ELSE receive_bypass_sig(mw, sock, e[1], e[2])
          IN  /\ mw' = r.mw
              /\ AfterCall("main", r.called, r.sock)
              /\ Noted(observed,
                       [op |-> "purge tick", mode |-> mode, active |-> mw.operate_checked,
                        wrote |-> Wrote(r, IF mode = "vent" THEN 0
                                           ELSE IF cal_pressure = <<>> THEN 0 ELSE cal_pressure[1])])
    /\ purge_count' = 1 - purge_count
    /\ UNCHANGED <<tquiet, dev_cal, cal_pressure, pollvars, polling_timer, sweepvars,
                   bleed_supply_timer, purge_timer, blip, app>>

\* Bleed Supply is checked and a rate is given: main_window.py lines 632-644,
\* controller.py lines 372-375.
receive_start_bleed_supply_sig ==
    /\ app = "running"
    /\ ~bleed_supply_timer
    /\ bleed_supply_timer' = TRUE
    /\ UNCHANGED <<tvars, dvars, pollvars, polling_timer, mw, sweepvars, purge_timer,
                   purge_count, blip, stale, app>>

\* Bleed Supply is unchecked: main_window.py lines 633-635, controller.py
\* lines 400-402.
receive_stop_bleed_supply_sig ==
    /\ app = "running"
    /\ bleed_supply_timer
    /\ bleed_supply_timer' = FALSE
    /\ UNCHANGED <<tvars, dvars, pollvars, polling_timer, mw, sweepvars, purge_timer,
                   purge_count, blip, stale, app>>

\* The bleed supply timer fires: controller.py lines 378-390.
\* The blip task is handed to the thread pool; the model follows
\* one task at a time.  int() of an empty entry raises ValueError.
receive_bleed_supply_timer_timeout(observed) ==
    /\ app = "running"
    /\ bleed_supply_timer
    /\ blip.pc = "none"
    /\ IF ~(mw.operate_checked /\ mw.operate_rb = 101)
         THEN /\ UNCHANGED blip
              /\ Noted(observed, [op |-> "bleed tick", gate |-> FALSE, dispatched |-> FALSE])
         ELSE IF mw.entry = <<>>
           THEN /\ UNCHANGED blip
                /\ Noted(observed, [op |-> "bleed tick", gate |-> TRUE, dispatched |-> FALSE])
           ELSE /\ blip' = [pc |-> "dip", blip_pressure |-> mw.entry[1] - 20,
                                pressure_setting |-> mw.entry[1]]
                /\ Noted(observed, [op |-> "bleed tick", gate |-> TRUE, dispatched |-> TRUE])
    /\ UNCHANGED <<tvars, dev_cal, cal_pressure, pollvars, polling_timer, mw, sweepvars,
                   bleed_supply_timer, purge_timer, purge_count, stale, app>>

\* controller.py lines 393-395, run by the blip task on a pool thread: the
\* first write, then the 20 ms wait.  An exception of the write ends the task.
bleed_supply_line_dip(observed) ==
    /\ app = "running"
    /\ blip.pc = "dip"
    /\ \E n \in 1..2, x \in Env \cup StaleEnv("blip") :
          LET e == Script(n, x)
              r == pressure_setter(sock, cal_pressure,
                                   Num(convert_mbar_to_psi(blip.blip_pressure)), e[1], e[2])
          IN  /\ AfterCall("blip", TRUE, r.sock)
              /\ blip' = IF r.res = "ok" THEN [blip EXCEPT !.pc = "dwell"] ELSE NoBlip
              /\ Noted(observed,
                       IF r.res = "ok"
                         THEN [op |-> "pressure", by |-> "blip", mbar |-> blip.blip_pressure,
                               last |-> FALSE]
                         ELSE [op |-> "blip ended", at |-> "dip", res |-> r.res])
    /\ UNCHANGED <<tquiet, dev_cal, cal_pressure, pollvars, polling_timer, mw, sweepvars,
                   bleed_supply_timer, purge_timer, purge_count, app>>

\* controller.py lines 396-397: the second write, of the pressure setting
\* the task was given.
bleed_supply_line_restore(observed) ==
    /\ app = "running"
    /\ blip.pc = "dwell"
    /\ \E n \in 1..2, x \in Env \cup StaleEnv("blip") :
          LET e == Script(n, x)
              r == pressure_setter(sock, cal_pressure,
                                   Num(convert_mbar_to_psi(blip.pressure_setting)), e[1], e[2])
          IN  /\ AfterCall("blip", TRUE, r.sock)
              /\ Noted(observed,
                       IF r.res = "ok"
                         THEN [op |-> "pressure", by |-> "blip", mbar |-> blip.pressure_setting,
                               last |-> TRUE]
                         ELSE [op |-> "blip ended", at |-> "restore", res |-> r.res])
    /\ blip' = NoBlip
    /\ UNCHANGED <<tquiet, dev_cal, cal_pressure, pollvars, polling_timer, mw, sweepvars,
                   bleed_supply_timer, purge_timer, purge_count, app>>

\* The main window is closed: main_window.py lines 657-666, controller.py
\* lines 359-367.  worker_thread was never started.
receive_closing_sig ==
    /\ app = "running"
    /\ polling_timer' = FALSE
    /\ app' = "closed"
    /\ UNCHANGED <<tvars, dvars, pollvars, mw, sweepvars, timers, stale>>

(************************* The system **************************************)
\* eReg.__init__ tries to connect; with a handle, Controller.__init__ runs
\* _init_ereg and set_valves_disabled_state (controller.py lines 60-62).
Init ==
    /\ lock = "free"
    /\ pc = [t \in Threads |-> "idle"]
    /\ rxbuf = <<>>
    /\ got = [t \in Threads |-> "None"]
    /\ outcome = [t \in Threads |-> "none"]
    /\ sends = [t \in Threads |-> 0]
    /\ late = [t \in Threads |-> FALSE]
    /\ faulted = FALSE
    /\ dev_cal = 4400
    /\ call = [op |-> "none"]
    /\ working = FALSE
    /\ poll = NoCall
    /\ cyc = NoCycle
    /\ sweep_worker = NoWorker
    /\ worker_ref = "unset"
    /\ sweep_thread = "unset"
    /\ sweep_timer = FALSE
    /\ sweep_pc = "off"
    /\ sigq = <<>>
    /\ sw = NoSweep
    /\ bleed_supply_timer = FALSE
    /\ purge_timer = FALSE
    /\ purge_count = 0
    /\ blip = NoBlip
    /\ stale = {}
    /\ app = "running"
    /\ \/ /\ sock = "None"
          /\ cal_pressure = <<>>
          /\ polling_timer = FALSE
          /\ mw = MainWindow_init
       \/ /\ sock = "conn"
          /\ cal_pressure = <<dev_cal>>
          /\ polling_timer = TRUE
          /\ mw = set_valves_disabled_state(MainWindow_init)

NextPolling ==
    \/ PollTick(TRUE)
    \/ Reconnect
    \/ OperateBtn
    \/ EditPressure(SweepPressures, FALSE)

SpecPolling == Init /\ [][NextPolling]_vars

\* One connection, from construction until it is lost: the reconnect window
\* is left to SpecPolling.
Next ==
    \/ PollTick(FALSE)
    \/ OperateBtn
    \/ EditPressure(SweepPressures, FALSE)
    \/ EditSpan(SweepSpans)
    \/ SelectDirection
    \/ StartSweepBtn(SweepPressures)
    \/ StopSweepBtn
    \/ ExtSweepBtn
    \/ SweepWorker_doWork
    \/ take_step_begin
    \/ take_step_write
    \/ DeliverSignal
    \/ ThreadDeleted

Spec == Init /\ [][Next]_vars

\* The pressure entry takes up to four digits (main_window.py lines 105-106):
\* texts within and beyond the 0-3033 range of controller.py line 326.
EntryTexts == {Text(1000), Text(3034)}

\* The pressure entry and the sweep it starts.
NextEntry ==
    \/ OperateBtn
    \/ EditPressure(EntryTexts, FALSE)
    \/ EditSpan(SweepSpans)
    \/ StartSweepBtn(EntryTexts)
    \/ SweepWorker_doWork
    \/ take_step_begin
    \/ take_step_write
    \/ DeliverSignal

SpecEntry == Init /\ [][NextEntry]_vars

\* A sweep, the loss of the connection and the reconnection.
NextRestart ==
    \/ PollTick(FALSE)
    \/ Reconnect
    \/ OperateBtn
    \/ EditPressure(SweepPressures, FALSE)
    \/ EditSpan(SweepSpans)
    \/ StartSweepBtn(SweepPressures)
    \/ SweepWorker_doWork
    \/ take_step_begin
    \/ take_step_write
    \/ DeliverSignal
    \/ ThreadDeleted

SpecRestart == Init /\ [][NextRestart]_vars

\* The timers of the controller and the closing of the window.  What the
\* bleed supply timer does when it fires is in SpecBleed.
NextTimers ==
    \/ PollTick(FALSE)
    \/ OperateBtn
    \/ EditPressure(SweepPressures, FALSE)
    \/ EditSpan(SweepSpans)
    \/ StartSweepBtn(SweepPressures)
    \/ SweepWorker_doWork
    \/ take_step_begin
    \/ take_step_write
    \/ DeliverSignal
    \/ PurgePressed(FALSE)
    \/ PurgeReleased(FALSE)
    \/ start_purging(FALSE)
    \/ receive_start_bleed_supply_sig
    \/ receive_stop_bleed_supply_sig
    \/ receive_closing_sig

SpecTimers == Init /\ [][NextTimers]_vars

\* A sweep and the ways it is stopped: the button, the loss of the
\* connection, the closing of the window.
NextStop ==
    \/ PollTick(FALSE)
    \/ OperateBtn
    \/ EditPressure(SweepPressures, FALSE)
    \/ EditSpan(SweepSpans)
    \/ StartSweepBtn(SweepPressures)
    \/ StopSweepBtn
    \/ SweepWorker_doWork
    \/ take_step_begin
    \/ take_step_write
    \/ DeliverSignal
    \/ ThreadDeleted
    \/ receive_closing_sig

SpecStop == Init /\ [][NextStop]_vars

\* Polling, observed, beside a sweep and the other timers.
NextUnexpected ==
    \/ PollTick(TRUE)
    \/ OperateBtn
    \/ EditPressure(SweepPressures, FALSE)
    \/ EditSpan(SweepSpans)
    \/ StartSweepBtn(SweepPressures)
    \/ SweepWorker_doWork
    \/ take_step_begin
    \/ take_step_write
    \/ DeliverSignal
    \/ PurgePressed(FALSE)
    \/ receive_start_bleed_supply_sig

SpecUnexpected == Init /\ [][NextUnexpected]_vars

\* A sweep beside the polling timer, every timer that runs firing in the
\* end, every started thread running and every queued signal delivered.
NextSweepLive ==
    \/ PollTick(FALSE)
    \/ OperateBtn
    \/ EditPressure(SweepPressures, FALSE)
    \/ EditSpan(SweepSpans)
    \/ StartSweepBtn(SweepPressures)
    \/ ExtSweepBtn
    \/ StopSweepBtn
    \/ SweepWorker_doWork
    \/ take_step_begin
    \/ take_step_write
    \/ DeliverSignal

SpecSweepLive ==
    /\ Init
    /\ [][NextSweepLive]_vars
    /\ WF_vars(PollTick(FALSE))
    /\ WF_vars(SweepWorker_doWork)
    /\ WF_vars(take_step_begin)
    /\ WF_vars(take_step_write)
    /\ WF_vars(DeliverSignal)

\* Setpoints for the bleed supply: the default of the entry, and one above
\* the dip of 20 mbar.
BleedPressures == {Text(0), Text(1000)}

\* The bleed supply beside the main tab, what it writes being observed.
NextBleed ==
    \/ OperateBtn
    \/ EditPressure(BleedPressures, TRUE)
    \/ receive_start_bleed_supply_sig
    \/ receive_stop_bleed_supply_sig
    \/ receive_bleed_supply_timer_timeout(TRUE)
    \/ bleed_supply_line_dip(TRUE)
    \/ bleed_supply_line_restore(TRUE)

SpecBleed == Init /\ [][NextBleed]_vars

\* A sweep with the bleed supply timer running beside it.
NextSweepBleed ==
    \/ OperateBtn
    \/ EditSpan(SweepSpans)
    \/ EditPressure(SweepPressures, FALSE)
    \/ StartSweepBtn(SweepPressures)
    \/ SweepWorker_doWork
    \/ take_step_begin
    \/ take_step_write
    \/ DeliverSignal
    \/ ThreadDeleted
    \/ receive_start_bleed_supply_sig
    \/ receive_bleed_supply_timer_timeout(TRUE)
    \/ bleed_supply_line_dip(TRUE)
    \/ bleed_supply_line_restore(TRUE)

SpecSweepBleed == Init /\ [][NextSweepBleed]_vars

\* The purge button beside the polling timer, OPERATE and the reconnect
\* window.
NextPurge ==
    \/ PollTick(FALSE)
    \/ Reconnect
    \/ OperateBtn
    \/ SelectMode
    \/ PurgePressed(TRUE)
    \/ PurgeReleased(TRUE)
    \/ start_purging(TRUE)

SpecPurge == Init /\ [][NextPurge]_vars

(***************************************************************************)
(* SpecMedian: what PollingWorker.doWork makes of the reply to the buffer  *)
(* read.  A reply is a sequence of tokens separated by white space; a      *)
(* token is a decimal reading (vvv.vv, here a whole number), a word (it    *)
(* has a letter, as the status replies sbe and scr have), or marks (no     *)
(* letter and no number, so float() raises ValueError).                    *)
(***************************************************************************)
MaxTokens == 3

Readings == {10, 11, 12}

Tokens ==
    [kind : {"number"}, n : Readings] \cup {[kind |-> "word", n |-> 0], [kind |-> "marks", n |-> 0]}

BufferResponses == UNION {[1..k -> Tokens] : k \in 0..MaxTokens}

\* The token in the middle of the reply as it was sent, doubled.
MiddleToken(values) == 2 * values[(Len(values) + 1) \div 2]

\* sorted(), by insertion.
RECURSIVE sorted(_)
sorted(values) ==
    IF values = <<>>
      THEN <<>>
      ELSE LET rest == sorted(Tail(values))
               x == Head(values)
               k == Cardinality({i \in 1..Len(rest) : rest[i] < x})
           IN  SubSeq(rest, 1, k) \o <<x>> \o SubSeq(rest, k + 1, Len(rest))

\* statistics.median, polling_worker.py line 67: the middle value of the
\* sorted data, or the mean of the two middle values.  The value is kept
\* doubled, so that the mean of two readings is a whole number.
median(values) ==
    LET data == sorted(values)
        n == Len(data)
    IN  IF n % 2 = 1
          THEN 2 * data[(n + 1) \div 2]
          ELSE data[n \div 2] + data[n \div 2 + 1]

\* polling_worker.py lines 58-77 on a reply that was read: the signal
\* emitted and the value it carries.
doWork_result(response) ==
    IF \E i \in 1..Len(response) : response[i].kind = "word"
      THEN [event |-> "none", result |-> <<>>]
      ELSE IF response = <<>>
        THEN [event |-> "none", result |-> <<>>]
        ELSE IF \E i \in 1..Len(response) : response[i].kind # "number"
          THEN [event |-> "unexpected_error_sig", result |-> <<>>]
          ELSE [event |-> "result_sig",
                result |-> <<median([i \in 1..Len(response) |-> response[i].n])>>]

\* The instrument answers the buffer read.
Poll_send_buffer ==
    /\ call.op # "send_buffer"
    /\ \E response \in BufferResponses :
          call' = [op |-> "send_buffer", response |-> response]
    /\ UNCHANGED <<tvars, dev_cal, cal_pressure, svars>>

\* doWork goes on with the reply.
Poll_doWork ==
    /\ call.op = "send_buffer"
    /\ LET r == doWork_result(call.response) IN
         call' = [op |-> "doWork", response |-> call.response, event |-> r.event,
                  result |-> r.result]
    /\ UNCHANGED <<tvars, dev_cal, cal_pressure, svars>>

NextMedian ==
    \/ Poll_send_buffer
    \/ Poll_doWork

SpecMedian == DriverInit /\ [][NextMedian]_vars

(***************************************************************************)
(*                               Claims                                    *)
(***************************************************************************)

\* C1: one command/response exchange is atomic.  While a thread is between
\* its sendall and its recv it holds the lock, the only response waiting on
\* the socket is the one to its own command, and no other thread is between
\* a send and a receive; every response a thread receives answers its own
\* command.
C1_ExchangeAtomic ==
    \A t \in Threads :
        /\ pc[t] = "sent" =>
              /\ lock = t
              /\ rxbuf = <<t>>
              /\ \A u \in Threads \ {t} : pc[u] \notin {"locked", "sent"}
        /\ got[t] \in {"None", t}

\* C1's case: a thread is in the middle of its exchange while the two others
\* have passed the connected-check and wait for the lock.
C1_Witness ==
    \E t \in Threads :
        /\ pc[t] = "sent"
        /\ \A u \in Threads \ {t} : pc[u] = "wait"

\* C2 (as claimed): the set-pressure command goes out only for a number v
\* with 0 <= v <= CalibrationPressure, and does go out for such a v when its
\* exchanges succeed; for every other v the setter fails with ValueError
\* and no command at all was sent during the call.
C2_InvalidSetpointSendsNothing ==
    call.op = "pressure.setter" =>
        LET v == call.arg
            valid == v.type = "number" /\ 0 <= v.n /\ v.n <= dev_cal
            spc_sent == \E i \in 1..Len(call.wire) : call.wire[i] = <<"spc", v.n>>
        IN  /\ spc_sent => valid
            /\ (valid /\ call.res = "ok") => spc_sent
            /\ ~valid => (call.res = "ValueError" /\ call.wire = <<>>)

\* C3 (as claimed): after a socket fault the handle is absent (at most the
\* socket of a connect attempt that has not succeeded yet) and the faulted
\* call was not sent again; until a connect succeeds, a call begun after the
\* fault sends nothing and fails with ConnectionError.
C3_FaultInvalidatesHandle ==
    /\ faulted => sock # "conn"
    /\ \A t \in Threads :
          /\ sends[t] <= 1
          /\ late[t] => sends[t] = 0
          /\ (late[t] /\ pc[t] = "idle") => outcome[t] = "ConnectionError"

\* C4 (as claimed), in the case the claim singles out: after another
\* caller's exchange has faulted and cleared the handle, a call that passed
\* the connected-check and reaches the socket under the lock fails with
\* ConnectionError and with no other kind of failure.
C4_AbsentHandleRaisesConnectionError ==
    faulted => \A t \in Threads : outcome[t] # "AttributeError"

\* C5: while the guard flag is set no polling tick sends the set-sample-rate
\* or the start-sampling command.  A tick that found the flag set sent the
\* buffer read and nothing else (or nothing at all, without a handle); a
\* tick whose buffer read was answered "not ready" left the flag set and
\* emitted no signal; and a sampling cycle was started at most once between
\* two clearings of the flag.
C5_OneCycleInFlight ==
    /\ poll.entry => /\ \A i \in 1..Len(poll.wire) : poll.wire[i] \notin {"ssrc", "ssc"}
                     /\ poll.wire \in {<<>>, <<"sbc">>}
    /\ poll.reply \in {"not ready", "blank"} => (working /\ poll.event = "none")
    /\ cyc.starts <= 1

\* C5's case: a cycle has seen a not-ready tick, and the tick after it found
\* the flag set, sent only the buffer read and was told "not ready" again.
C5_Witness ==
    /\ poll.entry /\ cyc.waited /\ working
    /\ poll.wire = <<"sbc">>
    /\ poll.reply = "not ready"
    /\ cyc.starts = 1

\* C6: a polling cycle clears the flag exactly once, on every path.  While
\* the flag is set the cycle has neither cleared it nor emitted a signal;
\* once a tick has left the flag clear, the cycle it ended cleared the flag
\* once and emitted one signal; the tick that emits a signal leaves the flag
\* clear; and a tick that failed at the start step did not send the buffer
\* read.
C6_FlagClearedOncePerCycle ==
    /\ working => (cyc.clears = 0 /\ cyc.events = 0)
    /\ (~working /\ poll # NoCall) => (cyc.clears = 1 /\ cyc.events = 1)
    /\ poll.event # "none" => ~working
    /\ poll.step = "start" =>
          /\ poll.event \in {"conn_error_sig", "unexpected_error_sig"}
          /\ \A i \in 1..Len(poll.wire) : poll.wire[i] # "sbc"

\* C6's case: a cycle that went through a not-ready tick has ended with the
\* median result.
C6_Witness ==
    /\ cyc.waited /\ ~working
    /\ poll.entry /\ poll.event = "result_sig"
    /\ cyc.clears = 1 /\ cyc.events = 1

\* C7 (as claimed): once the polling worker's ConnectionError has asked the
\* sweep to cancel, the polling timer is stopped, the sweep's running flag
\* is cleared, finished is emitted at most once, and a sweep tick that
\* writes after the request, having passed the flag before it, raises
\* nothing.
C7_ConnErrorCancelsSweepCleanly ==
    /\ [](sw.cancel = "conn_error" =>
             (~polling_timer /\ ~sweep_worker._is_running /\ sw.finished <= 1))
    /\ [][(sw.cancel = "conn_error" /\ sweep_pc = "write" /\ sweep_pc' = "idle")
             => sw'.raised = "none"]_vars

\* C8: after stop is requested on a running sweep, the request leaves the
\* tick in progress alone and that tick writes and counts its step as any
\* other; the next tick finds the flag cleared, writes nothing, stops the
\* timer and emits finished; finished is emitted once; and after it the
\* worker writes no pressure and emits no progress.
C8_StopFinishesOnce ==
    /\ [](sw.finished <= 1)
    /\ [](sw.cancel = "stop" =>
             /\ ~sweep_worker._is_running
             /\ sweep_worker.steps_taken <= sw.at + (IF sw.midtick THEN 1 ELSE 0))
    /\ [](sw.finished = 1 =>
             /\ ~sweep_timer /\ sweep_pc # "write"
             /\ \A i, j \in 1..Len(sigq) :
                   (i < j /\ sigq[i][1] = "sweep_finished_sig")
                       => sigq[j][1] \notin {"current_pressure_sig", "sweep_progress_sig"})
    /\ [][(sweep_worker._is_running /\ ~sweep_worker'._is_running /\ sw'.cancel = "stop")
             => /\ sw'.midtick = (sweep_pc = "write")
                /\ sweep_pc' = sweep_pc /\ sweep_timer' = sweep_timer /\ sigq' = sigq
                /\ sweep_worker'.steps_taken = sweep_worker.steps_taken]_vars
    /\ [][(sw.cancel = "stop" /\ sweep_pc = "write" /\ sweep_pc' = "idle" /\ sw'.raised = "none")
             => /\ sweep_worker'.steps_taken = sweep_worker.steps_taken + 1
                /\ Len(sigq') = Len(sigq) + 2]_vars
    /\ [][(sw.cancel = "stop" /\ sweep_pc = "idle" /\ sweep_timer /\ <<sweep_pc, sweep_timer>>' # <<sweep_pc, sweep_timer>>)
             => /\ ~sweep_timer' /\ sweep_pc' = "idle"
                /\ sigq' = Append(sigq, <<"sweep_finished_sig">>)
                /\ sw'.finished = sw.finished + 1
                /\ sweep_worker' = sweep_worker]_vars
    /\ [][(sw.finished = 1 /\ sw'.finished = 1)
             => /\ sweep_worker'.steps_taken = sweep_worker.steps_taken
                /\ sweep_worker'.current_pressure = sweep_worker.current_pressure
                /\ Len(sigq') <= Len(sigq)]_vars

\* C8's case: stop was requested while a tick was in progress, that tick
\* took its step, and the sweep has finished short of its target.
C8_Witness ==
    /\ sw.cancel = "stop" /\ sw.midtick
    /\ sw.finished = 1
    /\ sweep_worker.steps_taken = sw.at + 1
    /\ sweep_worker.steps_taken < sweep_worker.target_count

\* C9 (as claimed): in a sweep from P with span N and direction sign s that
\* is neither cancelled nor asked to extend, currentPressure is
\* P + s*stepsTaken at every step, every tick that comes to the write takes
\* its step, so that N ticks make N writes, and when finished is emitted it
\* is emitted once with stepsTaken = N = targetStepCount and
\* currentPressure = P + s*N.
C9_SweepTakesNSteps ==
    /\ [](worker_ref = "object" =>
             sweep_worker.current_pressure = sw.P + sweep_worker.direction_val * sweep_worker.steps_taken)
    /\ []((worker_ref = "object" /\ sw.cancel = "no" /\ sw.extend = "no" /\ sw.finished >= 1) =>
             /\ sw.finished = 1
             /\ sweep_worker.steps_taken = sw.N /\ sweep_worker.target_count = sw.N
             /\ sweep_worker.current_pressure = sw.P + sweep_worker.direction_val * sw.N)
    /\ [][(sw.cancel = "no" /\ sw.extend = "no" /\ sweep_pc = "write" /\ sweep_pc' = "idle")
             => sweep_worker'.steps_taken = sweep_worker.steps_taken + 1]_vars

\* C10 (as claimed): a request to extend a running sweep by delta = 50, with
\* the implied target T = P + s*(span + 50): for 0 <= T <= 3033 the span and
\* targetStepCount both grow by 50; otherwise they grow by the delta that
\* makes the target 3033 or 0, and the extend button is disabled.
C10_ExtendGrowsSpanAndTarget ==
    [][(ExtSweepBtn /\ worker_ref = "object" /\ sweep_thread = "running" /\ mw.span_entry # <<>>)
          => LET span == mw.span_entry[1]
                 s == sweep_worker.direction_val
                 T == sw.P + s * (span + 50)
                 delta == IF T > 3033 THEN 3033 - sw.P - span
                          ELSE IF T < 0 THEN sw.P - span
                          ELSE 50
             IN  /\ mw'.span_entry = Text(span + delta)
                 /\ sweep_worker'.target_count = sweep_worker.target_count + delta
                 /\ (delta # 50) => ~mw'.ext_sweep_btn]_vars

\* C11 (as claimed): whatever the sequence of entry edits, starts, ticks and
\* stops, the current pressure of a sweep, which is the pressure its next
\* tick writes, lies within 0..3033 mbar.
C11_SweepPressureInRange ==
    worker_ref = "object" =>
        (0 <= sweep_worker.current_pressure /\ sweep_worker.current_pressure <= 3033)

\* C12: while a sweep runs, the steps taken never exceed the target step
\* count, however its ticks interleave with extend requests.
C12_StepsWithinTarget ==
    (worker_ref = "object" /\ sweep_thread = "running") =>
        sweep_worker.steps_taken <= sweep_worker.target_count

\* A running sweep that has taken all its steps after an extend request.
C12_Witness ==
    /\ worker_ref = "object" /\ sweep_thread = "running"
    /\ sw.extend # "no"
    /\ sweep_worker.target_count > 0
    /\ sweep_worker.steps_taken = sweep_worker.target_count

\* C13 (as claimed): a start request is accepted only when no earlier sweep
\* is active; none is accepted, and no second stepper created, while the
\* thread of an earlier sweep runs and that sweep has not finished.
C13_OneSweepAtATime == ~(app = "second sweep" /\ sw.finished = 0)

\* C14 (as claimed): once the window is closed every timer (polling, sweep,
\* bleed supply, purge) is stopped and no worker is about to issue a
\* command.
C14_CloseStopsEverything ==
    app = "closed" =>
        /\ ~polling_timer /\ ~sweep_timer /\ ~bleed_supply_timer /\ ~purge_timer
        /\ sweep_pc \notin {"start", "write"}

C16_TimerStartsAfterInit ==
    /\ [](polling_timer => cal_pressure = <<dev_cal>>)
    /\ [][(~polling_timer /\ polling_timer')
             => /\ sock = "None" /\ sock' = "conn"
                /\ cal_pressure' = <<dev_cal>>
                /\ mw' = set_valves_disabled_state(mw)]_vars
    /\ [][(sock = "None" /\ sock' = "None") => (polling_timer' => polling_timer)]_vars

\* C16's case: polling was stopped by a lost connection and runs again
\* after a connect by the user.
C16_Witness ==
    /\ poll.event = "conn_error_sig"
    /\ polling_timer /\ sock = "conn" /\ cal_pressure = <<dev_cal>>

\* C17 (as claimed): when a ConnectionError is surfaced (the polling timer
\* is stopped and the window put in its disconnected state), the bleed
\* supply timer and the purge timer are inactive as well.
C17_ConnErrorStopsAllTimers ==
    [][(polling_timer /\ ~polling_timer' /\ mw' = set_disconnected_state(mw))
         => (~polling_timer' /\ ~bleed_supply_timer' /\ ~purge_timer')]_vars

\* C18: the handling of an unexpected polling error stops the polling timer
\* and, the pressure reading it blanks when it surfaces the error aside,
\* changes nothing else: the sweep keeps its running flag, step count and
\* timer, the bleed supply and purge timers keep their state, and the
\* socket handle is what it was.
C18_UnexpectedErrorStopsPollingOnly ==
    [][(polling_timer /\ poll' # poll /\ poll'.event = "unexpected_error_sig")
         => /\ ~polling_timer'
            /\ UNCHANGED <<sweep_worker, worker_ref, sweep_thread, sweep_timer, sweep_pc, sigq>>
            /\ UNCHANGED <<bleed_supply_timer, purge_timer, purge_count>>
            /\ sock' = sock
            /\ mw' = [mw EXCEPT !.reading = "dashes"]]_vars

\* C18's case: the unexpected error came while a sweep timer was active;
\* the sweep, the bleed supply timer and the purge timer run on and the
\* handle is present.
C18_Witness ==
    /\ poll.event = "unexpected_error_sig" /\ poll.during
    /\ ~polling_timer
    /\ sweep_timer /\ sweep_worker._is_running /\ sweep_worker.steps_taken > 0
    /\ bleed_supply_timer /\ purge_timer
    /\ sock = "conn"

\* C19 (as claimed): a sweep tick whose pressure write fails queues one
\* error event for the controller, and the tick after a failed write does
\* not come to the write again.
C19_FailureSurfacedOnceNoRetry ==
    /\ [][(sweep_pc = "write" /\ sweep_pc' = "idle" /\ sw'.raised # "none")
             => Len(sigq') = Len(sigq) + 1]_vars
    /\ [][(sweep_pc = "idle" /\ sw.raised # "none") => sweep_pc' # "write"]_vars

\* C20 (as claimed): once a lost connection has cancelled a sweep, the
\* operate button and the sweep tab stay disabled for as long as no connect
\* has succeeded, whatever event comes later.
C20_StaysDisabledUntilReconnect ==
    (sw.cancel = "conn_error" /\ sock = "None") => (~mw.operate_enabled /\ ~mw.sweep_tab)

\* C21 (as claimed): a rejected pressure entry restores the last accepted
\* value, so the pressure entry is never left empty and always reads as a
\* value within 0..3033.
C21_EntryShowsAcceptedValue ==
    /\ mw.entry # <<>>
    /\ \A i \in 1..Len(mw.entry) : 0 <= mw.entry[i] /\ mw.entry[i] <= 3033

\* C22 (as claimed): the heartbeat setter accepts an integer v and sends
\* shbc:v exactly when v = 0 or 50 <= v <= 65000; for any other value it
\* fails with ValueError and sends nothing.
C22_HeartbeatAcceptsValidValues ==
    call.op = "heartbeat.setter" =>
        LET v == call.arg
            valid == v.type = "number" /\ (v.n = 0 \/ (50 <= v.n /\ v.n <= 65000))
            sent == \E i \in 1..Len(call.wire) : call.wire[i] = <<"shbc", v.n>>
        IN  /\ sent => valid
            /\ valid => call.res # "ValueError"
            /\ (valid /\ call.res = "ok") => sent
            /\ ~valid => (call.res = "ValueError" /\ call.wire = <<>>)

\* C23 (as claimed): a bounded write called with a value of the wrong type
\* or outside its bounds fails with ValueError and no command at all goes
\* out during the call; called with a value inside its bounds it sends its
\* own command and nothing else.
C23_InvalidValueSendsNothing ==
    call.op \in BoundedOps =>
        LET v == call.arg
            valid == v.type = "number" /\ Lower(call.op) <= v.n /\ v.n <= Upper(call.op)
        IN  /\ ~valid => (call.res = "ValueError" /\ call.wire = <<>>)
            /\ valid => \A i \in 1..Len(call.wire) : call.wire[i] = <<Command(call.op), v.n>>
            /\ (valid /\ call.res = "ok") => call.wire = <<<<Command(call.op), v.n>>>>

\* C24: a call whose response is one of bcr, bdr, cfe, ine fails with
\* NegativeAcknowledgementError and a call with any other response succeeds;
\* a negative acknowledgement leaves the handle in place, and the command of
\* the call after it goes out on that connection.
C24_NegativeAckKeepsConnection ==
    /\ [](call.op = "_send_query" =>
             /\ call.resp \in ERROR_RESPONSES <=> call.res = "NegativeAcknowledgementError"
             /\ (call.resp # "none" /\ call.resp \notin ERROR_RESPONSES) <=> call.res = "ok"
             /\ call.res = "NegativeAcknowledgementError" => sock = "conn")
    /\ [][(call.op = "_send_query" /\ call.res = "NegativeAcknowledgementError"
              /\ call'.op = "_send_query" /\ call'.res # "ConnectionError")
             => (sock' = sock /\ call'.wire = <<<<"rhbc">>>>)]_vars

\* C24's case: the device has answered ine and the handle is in place.
C24_Witness ==
    /\ call.op = "_send_query" /\ call.resp = "ine"
    /\ call.res = "NegativeAcknowledgementError"
    /\ sock = "conn"

\* C25 (as claimed): the calibration pressure is read from the instrument
\* at connect only: a pressure write makes no read-defaults exchange, and
\* leaves the cached value as it is.
C25_CalibrationReadOnceCached ==
    /\ [](call.op = "pressure.setter" =>
             \A i \in 1..Len(call.wire) : call.wire[i] # <<"rdc">>)
    /\ [][(call'.op = "pressure.setter" /\ call' # call) => cal_pressure' = cal_pressure]_vars

\* C26: a tick of the bleed supply timer dispatches a blip task exactly when
\* OPERATE is checked (which puts the instrument in pressurize mode); every
\* dispatched blip writes the dip and then the captured setpoint, neither
\* write ending the task early, and the last write of a blip is the setpoint
\* it captured at the tick.
C26_BlipDipsThenRestores ==
    /\ [](call.op = "bleed tick" => (call.dispatched <=> call.gate))
    /\ [](call.op # "blip ended")
    /\ [][(blip.pc = "dwell" /\ blip'.pc = "none")
            => /\ call'.op = "pressure"
               /\ call'.by = "blip"
               /\ call'.mbar = blip.pressure_setting]_vars

\* C30: a setpoint that the user writes during the wait of a blip stays the
\* last pressure written: the second write of the blip does not replace it
\* by another value.
C30_BlipKeepsUserSetpoint ==
    [][(/\ blip.pc = "dwell"
        /\ call.op = "pressure"
        /\ call.by = "main"
        /\ call'.op = "pressure"
        /\ call'.by = "blip")
        => call'.mbar = call.mbar]_vars

\* C27: for a reply of numbers only (at least one), doWork emits one result,
\* the median of all the numbers of the reply (10, 12, 11 gives 11); for a
\* reply with a token that is not a number it emits no result.
C27_ResultIsMedian ==
    call.op = "doWork" =>
        LET r == call.response
            n == Len(r)
            values == [i \in 1..n |-> r[i].n]
            numeric == n > 0 /\ \A i \in 1..n : r[i].kind = "number"
            \* the k-th smallest: fewer than k values are below it, k or more not above it
            Kth(k) == CHOOSE x \in {values[i] : i \in 1..n} :
                          /\ Cardinality({i \in 1..n : values[i] < x}) < k
                          /\ Cardinality({i \in 1..n : values[i] <= x}) >= k
        IN  /\ numeric =>
                 /\ call.event = "result_sig"
                 /\ Len(call.result) = 1
                 /\ call.result[1] = IF n % 2 = 1
                                        THEN 2 * Kth((n + 1) \div 2)
                                        ELSE Kth(n \div 2) + Kth(n \div 2 + 1)
            /\ (n = 3 /\ values = <<10, 12, 11>> /\ numeric) => call.result = <<2 * 11>>
            /\ (\E i \in 1..n : r[i].kind # "number") =>
                 /\ call.event # "result_sig"
                 /\ call.result = <<>>

C27_Witness ==
    /\ call.op = "doWork"
    /\ call.response = <<[kind |-> "number", n |-> 10], [kind |-> "number", n |-> 12],
                         [kind |-> "number", n |-> 11]>>
    /\ call.event = "result_sig"
    /\ call.result = <<22>>

\* C28: a request to extend a running sweep leaves the steps taken, the
\* current pressure, the direction and the running flag of the sweep as they
\* were; of the sweep it can change the target count only, and of the rest
\* of the program the span entry, the progress maximum and the extend button.
C28_ExtendKeepsSweepState ==
    [][(ExtSweepBtn /\ worker_ref = "object" /\ sweep_worker._is_running)
        => /\ sweep_worker'.steps_taken = sweep_worker.steps_taken
           /\ sweep_worker'.current_pressure = sweep_worker.current_pressure
           /\ sweep_worker'.direction_val = sweep_worker.direction_val
           /\ sweep_worker'._is_running = sweep_worker._is_running
           /\ sweep_timer' = sweep_timer
           /\ sigq' = sigq
           /\ sock' = sock
           /\ mw' = [mw EXCEPT !.span_entry = mw'.span_entry,
                                !.bar_maximum = mw'.bar_maximum,
                                !.ext_sweep_btn = mw'.ext_sweep_btn]]_vars

C28_Witness ==
    /\ sw.extend # "no"
    /\ worker_ref = "object"
    /\ sweep_worker._is_running
    /\ sweep_worker.steps_taken > 0
    /\ sweep_timer

\* C29: once a sweep has written a pressure, the pressure it reports as
\* current, and the setpoint field once that report is delivered, is the
\* pressure it wrote last; a sweep that finished without being cancelled
\* wrote the starting pressure plus or minus the span last.
C29_ReportedIsLastWritten ==
    (worker_ref = "object" /\ sw.written # <<>> /\ sweep_pc # "write") =>
        /\ sweep_worker.current_pressure = sw.written[1]
        /\ (sigq = <<>> /\ sweep_timer) => mw.entry = sw.written
        /\ (sw.finished > 0 /\ sw.cancel = "no" /\ sw.raised = "none")
             => sw.written[1] = sw.P + sweep_worker.direction_val * sw.N

\* C31: while a sweep is running no blip is dispatched, so nothing but the
\* sweep writes a setpoint during the sweep.
C31_NoBlipDuringSweep ==
    [][(sweep_thread = "running" /\ sweep_timer /\ blip.pc = "none")
        => blip'.pc = "none"]_vars

\* C32: the purge timer runs only while the purge button is held down;
\* whatever happened between press and release, once the button is up the
\* timer is stopped.
C32_PurgeTimerOnlyWhileHeld ==
    purge_timer => mw.purge_down

\* C33: the purge ticks ask for vent and bypass in turn, the first tick after
\* a purge start for vent; with OPERATE checked a vent tick writes 0 and a
\* bypass tick the cached calibration pressure; when the purge is stopped,
\* the timer is stopped and the mode of the checked radio button is applied
\* again.
C33_PurgeAlternates ==
    /\ [](call.op = "purge tick" =>
            /\ ~call.active => call.wrote = <<>>
            /\ call.wrote # <<>> =>
                  call.wrote = IF call.mode = "vent" THEN <<0>> ELSE cal_pressure)
    /\ [][(call'.op = "purge tick" /\ call' # call) =>
             /\ call.op = "purge start" => call'.mode = "vent"
             /\ call.op = "purge tick" => call'.mode # call.mode
             /\ call.op \in {"purge start", "purge tick"}]_vars
    /\ [][(call'.op = "purge stop" /\ call.op # "purge stop") =>
             /\ ~purge_timer'
             /\ call'.id = mw.operate_rb
             /\ mw.operate_rb = 101 => mw'.sweep_tab /\ mw'.last_valid_pressure = mw.entry
             /\ (mw.operate_rb # 101 /\ call'.res = "ok") => call'.called /\ ~mw'.sweep_tab
             /\ (mw.operate_rb # 101 /\ call'.res # "ok") => mw'.sweep_tab = mw.sweep_tab]_vars

C33_Witness ==
    /\ call.op = "purge tick"
    /\ call.mode = "bypass"
    /\ call.active
    /\ call.wrote = cal_pressure
    /\ cal_pressure # <<>>
    /\ purge_timer
    /\ mw.purge_down

C35_SweepFinishesAfterConnectionLoss ==
    (sweep_timer /\ sock = "None") ~> (sw.finished > 0)

\* C36: no setpoint is written while OPERATE is unchecked, that is after the
\* valves-off command of the start or of the last click and before the next
\* valves-on command: every pressure written by the user's entry or by a
\* blip is written with OPERATE checked.
C36_NoSetpointWhileInactive ==
    [][(call'.op = "pressure" /\ call' # call) => mw.operate_checked]_vars

\* C37: whenever the polling timer is stopped and the window is open, the
\* connect request that restarts it is available to the user.
C37_ConnectAvailableWhenPollingStopped ==
    (app = "running" /\ ~polling_timer) => ENABLED Reconnect

\* C38: a connect attempt that failed has left no handle, has sent no
\* command, and has ended in the way the controller reports as an error:
\* open_connection returned None.
C38_FailedConnectReported ==
    (pc["main"] = "idle" /\ outcome["main"] \in {"open: refused", "open: AttributeError"}) =>
        /\ sock = "None"
        /\ sends["main"] = 0
        /\ outcome["main"] = "open: refused"

=============================================================================
